---- MODULE Spec2Model ----
(***************************************************************************)
(* Verification model of the Freenet telemetry WebSocket server            *)
(* (src/ws_server.py): the per-client bounded send queues and the batch    *)
(* flusher, the admission controller, the peer-name rate limiter and the   *)
(* in-memory network model with its stale-peer sweep.                      *)
(*                                                                         *)
(* Time.  The server mixes nanosecond telemetry timestamps and float       *)
(* seconds.  The model counts every clock in MILLISECONDS so that all      *)
(* thresholds fit TLC's integers; a threshold keeps the source's name.     *)
(***************************************************************************)
EXTENDS Bags, FiniteSets, Integers, Sequences, TLC

VARIABLES
    \* ---- fan-out layer (ClientHandler, broadcast, flush_event_buffer) ----
    clients,          \* set of live ClientHandler ids            (ws_server.py:216)
    queue,            \* handler -> contents of its asyncio.Queue (ws_server.py:240)
    dropped_count,    \* handler -> dropped_count                 (ws_server.py:245)
    closed,           \* handler -> _closed                       (ws_server.py:246)
    sender,           \* handler -> position of the _sender task  (ws_server.py:252)
    inflight,         \* handler -> the msg its sender holds inside ws.send
    ws,               \* handler -> state of its websocket ("open" / "closed")
    sent,             \* handler -> messages written to its socket, in order
    event_buffer,     \* the shared batch buffer                  (ws_server.py:1724)
    enq_count,        \* number of messages / events produced so far
    \* ---- admission (process_request, handle_client) ----
    crowd_general,    \* live sessions admitted as non-priority, not tracked one by one
    crowd_priority,   \* live sessions admitted as priority, not tracked one by one
    client_priority,  \* connection id -> is_priority          (ws_server.py:1851)
    client_real_ips,  \* connection id -> forwarded client IP   (ws_server.py:1850)
    merit,            \* connection id -> its own handshake carried a priority mark
    last_admit,       \* outcome of the latest handle_client admission check
    session,          \* handler -> position of its handle_client coroutine
    \* ---- peer names (set_peer_name, check_rate_limit, sanitize_name) ----
    now,                     \* the wall clock, in milliseconds
    client_ip,               \* handler -> client_ip             (ws_server.py:242)
    peer_names,              \* ip_hash -> name                  (ws_server.py:53)
    name_change_timestamps,  \* ip_hash -> accepted-change times (ws_server.py:56)
    naming,                  \* handler -> its set_peer_name request inside sanitize_name
    accepted,                \* every accepted name change so far: <<ip_hash, time>>
    \* ---- network model ----
    peers,                \* ip -> peer record                   (ws_server.py:331)
    connections,          \* set of edges {ip1, ip2}             (ws_server.py:332)
    ip_to_peer_id,        \* ip -> identity                      (ws_server.py:335)
    peer_id_to_ip,        \* identity -> ip                      (ws_server.py:336)
    attrs_peer_id_to_ip,  \* emitter identity -> ip              (ws_server.py:341)
    peer_presence,        \* ip -> presence record               (ws_server.py:345)
    subscriptions,        \* contract -> subscribers and tree    (ws_server.py:349)
    seeding_state,        \* contract -> identity -> state       (ws_server.py:353)
    contract_states,      \* contract -> identity -> state hash  (ws_server.py:357)
    contract_propagation, \* contract -> propagation record      (ws_server.py:361)
    peer_lifecycle,       \* identity -> lifecycle record        (ws_server.py:464)
    pending_ops,          \* transaction id -> pending operation (ws_server.py:468)
    associated,           \* ip -> identities ever bound to it (history)
    records,              \* number of records processed so far
    last_event,           \* what the latest process_record call returned
    offered,              \* <<contract, identity>> -> newest timestamp offered to
                          \* update_contract_state since the record was created
    event_history,        \* the history buffer, oldest first    (ws_server.py:184)
    transactions,         \* transaction id -> transaction       (ws_server.py:474)
    transaction_order,    \* transaction ids, oldest first       (ws_server.py:475)
    latencies,            \* op_stats["put"]["latencies"], in milliseconds
    percentiles,          \* what calc_percentiles returned last
    op_stats,             \* the counters of op_stats, and the latencies of get and update
    log_files,            \* the inode at TELEMETRY_LOG, and the lines of every file
    tailer,               \* tail_log: its position, current_inode, open file and offset
    handed,               \* the log records handed to process_record by tail_log
    network_state         \* what get_network_state returned last

fanVars == <<clients, queue, dropped_count, closed, sender, inflight, ws, sent,
            event_buffer, enq_count>>

admRest == <<crowd_general, crowd_priority, client_priority, client_real_ips, merit,
            last_admit>>

admVars == <<admRest, session>>

nameVars == <<now, client_ip, peer_names, name_change_timestamps, naming, accepted>>

tailVars == <<log_files, tailer, handed>>

netVars == <<peers, connections, ip_to_peer_id, peer_id_to_ip, attrs_peer_id_to_ip,
            peer_presence, subscriptions, seeding_state, contract_states,
            contract_propagation, peer_lifecycle, pending_ops, associated, records,
            last_event, offered, event_history, transactions, transaction_order,
            latencies, percentiles, op_stats, tailVars, network_state>>

vars == <<fanVars, admVars, nameVars, netVars>>

\* what the steps of each subsystem leave alone
notFan == <<admVars, nameVars, netVars>>

notAdm == <<fanVars, nameVars, netVars>>

(***************************************************************************)
(* Bounds of the model.                                                    *)
(***************************************************************************)
\* enqueue calls made on the unread queue of SpecQueue
MaxEnqueue == 150

\* free slots left in the slow client's queue in the initial state of SpecFan
Headroom == 2

\* events the tailer produces in SpecFan
MaxEvents == 4

\* messages written to one socket in SpecFan (state and history included)
MaxSent == 5

\* set_peer_name requests one session sends in SpecName
MaxNameRequests == 2

\* accepted name changes the self-id hash of SpecName starts with
PriorChanges == 3

\* the clock advances in steps of ClockStep minutes, MaxTicks times
ClockStep == 15

MaxTicks == 4

\* telemetry records processed in SpecNet
MaxRecords == 3

\* telemetry records replayed in SpecReplay, and the timestamps they carry
MaxReplay == 4

MaxStamp == 2

\* SpecHistory starts with a history buffer HistoryRoom entries short of the
\* next pruning round and stores MaxStore more events
HistoryRoom == 2

MaxStore == 5

\* SpecStats starts with no latency sample or with LatencyRoom samples short
\* of MAX_LATENCIES and measures MaxSamples more operations
LatencyRoom == 2

MaxSamples == 4

\* SpecSnapshot starts with a hub HubRoom connections short of
\* MAX_CONN_PER_PEER
HubRoom == 1

\* SpecAdmit starts with Slack non-priority sessions less than the general limit
\* and keeps at least that many of them live
Slack == 2

(***************************************************************************)
(* Program constants.                                                      *)
(***************************************************************************)
CLIENT_QUEUE_MAX == 100

MAX_CLIENTS == 300

PRIORITY_RESERVED == 50

NAME_CHANGE_LIMIT == 5

\* seconds
NAME_CHANGE_WINDOW == 3600

MAX_HISTORY_EVENTS == 50000

\* process_record prunes when len(event_history) % 100 == 0
PRUNE_INTERVAL == 100

MAX_TRANSACTIONS == 10000

MAX_CONN_PER_PEER == 20

\* "Keep only last 1000 latencies"
MAX_LATENCIES == 1000

\* "Sanity check: < 5 minutes", in milliseconds
MAX_LATENCY_MS == 300000

Backlog == CLIENT_QUEUE_MAX - Headroom

(***************************************************************************)
(* Python dicts are functions; these are d[k] = v, d.pop(k, None) and      *)
(* d.get(k, default).                                                      *)
(***************************************************************************)
DictPut(d, k, v) == [x \in DOMAIN d \cup {k} |-> IF x = k THEN v ELSE d[x]]

DictDel(d, k) == [x \in DOMAIN d \ {k} |-> d[x]]

DictGet(d, k, default) == IF k \in DOMAIN d THEN d[k] ELSE default

\* The handler ids of the model (one id per accepted websocket).
Handlers == {"A", "B"}

NoMsg == [type |-> "none"]

\* The n-th message handed to enqueue in SpecQueue (m1, m2, ...).
Msg(n) == [type |-> "msg", n |-> n]

(***************************************************************************)
(* ClientHandler.enqueue (ws_server.py:268-287) on one handler's state.    *)
(* put_nowait succeeds unless the queue holds CLIENT_QUEUE_MAX items; on   *)
(* QueueFull the oldest item is taken out (get_nowait), the put is retried *)
(* and dropped_count is incremented.                                       *)
(***************************************************************************)
QueueFull(q) == Len(q) >= CLIENT_QUEUE_MAX

put_nowait(q, msg) == IF QueueFull(q) THEN q ELSE Append(q, msg)

get_nowait(q) == IF q = <<>> THEN q ELSE Tail(q)

\* Mutant: drop-newest, a full queue refuses the new message.
enqueue_queue_dropnewest(q, isClosed, msg) ==
    IF isClosed THEN q
    ELSE IF ~QueueFull(q) THEN put_nowait(q, msg)
    ELSE put_nowait(q, msg)

enqueue_queue(q, isClosed, msg) ==
    IF isClosed THEN q
    ELSE IF ~QueueFull(q) THEN put_nowait(q, msg)
    ELSE put_nowait(get_nowait(q), msg)

enqueue_dropped(q, isClosed, d) ==
    IF isClosed THEN d
    ELSE IF ~QueueFull(q) THEN d
    ELSE d + 1

\* Mutant: the loop is abandoned when one client's queue is full (QueueFull
\* escaping enqueue), so nobody is served in a round that meets a full queue.
EnqueueAllAbortOnFull(hs, msg) ==
    /\ queue' = [h \in Handlers |->
                    IF h \in hs /\ \A g \in hs : ~QueueFull(queue[g])
                    THEN enqueue_queue(queue[h], closed[h], msg)
                    ELSE queue[h]]
    /\ UNCHANGED dropped_count

\* enqueue of msg on every handler of the set hs (the loop
\* "for client in list(clients): client.enqueue(msg)").
EnqueueAll(hs, msg) ==
    /\ queue' = [h \in Handlers |->
                    IF h \in hs THEN enqueue_queue(queue[h], closed[h], msg)
                    ELSE queue[h]]
    /\ dropped_count' = [h \in Handlers |->
                    IF h \in hs THEN enqueue_dropped(queue[h], closed[h], dropped_count[h])
                    ELSE dropped_count[h]]



(***************************************************************************)
(* Identity (anonymize_ip, ip_hash, is_public_ip).  The two hashes are     *)
(* prefixes of the SHA-256 of the address; the model keeps them as tagged  *)
(* values: equal for equal addresses, distinct for distinct ones.          *)
(***************************************************************************)
anonymize_ip(ip) == IF ip = "" THEN "unknown" ELSE <<"peer-", ip>>

ip_hash(ip) == IF ip = "" THEN "" ELSE <<"#", ip>>

(***************************************************************************)
(* Admission: process_request (lines 1854-1881) and the admission check of *)
(* handle_client (lines 1886-1911).                                        *)
(***************************************************************************)
\* len(clients): the sessions tracked one by one and the crowd
len_clients == Cardinality(clients) + crowd_general + crowd_priority

HexDigits == {"0", "1", "2", "3", "4", "5", "6", "7", "8", "9", "a", "b", "c", "d", "e", "f"}

\* len(token) == 16 and all(c in "0123456789abcdef" for c in token)
valid_token(token) == Len(token) = 16 /\ \A i \in 1..Len(token) : token[i] \in HexDigits

\* The token= parameters of the handshake URLs the model tries, in query order.
GoodToken == [i \in 1..16 |-> IF i % 2 = 0 THEN "a" ELSE "7"]

UpperToken == [i \in 1..16 |-> IF i % 2 = 0 THEN "A" ELSE "7"]

ShortToken == [i \in 1..15 |-> "a"]

LongToken == [i \in 1..17 |-> "a"]

Queries == {<<>>, <<GoodToken>>, <<UpperToken>>, <<ShortToken>>, <<LongToken>>,
            <<ShortToken, GoodToken>>}

\* A known peer's address and an address that is no peer.
PeerIP == "1.2.3.4"

OtherIP == "9.9.9.9"

\* X-Forwarded-For of the handshakes the model tries ("" = header absent)
Forwarded == {"", PeerIP, OtherIP}

\* ids of the connection objects in handshake; an id is free for a new
\* connection once the previous connection with that id is gone
Conns == {1, 2}

\* What the handshake itself carries: a valid token in the URL, or a forwarded
\* client address that is in the peer index.
RequestMerit(query, forwarded_for) ==
    \/ \E i \in 1..Len(query) : valid_token(query[i])
    \/ forwarded_for # "" /\ forwarded_for \in DOMAIN peers

process_request(c, query, forwarded_for) ==
    LET ips == IF forwarded_for # ""
               THEN DictPut(client_real_ips, c, forwarded_for)
               ELSE client_real_ips
        by_token == \E i \in 1..Len(query) : valid_token(query[i])
        by_peer == c \in DOMAIN ips /\ ips[c] \in DOMAIN peers
    IN  /\ c \notin DOMAIN client_priority
        /\ client_real_ips' = ips
        /\ client_priority' = DictPut(client_priority, c, by_token \/ by_peer)
        /\ merit' = [merit EXCEPT ![c] = RequestMerit(query, forwarded_for)]
        /\ UNCHANGED <<crowd_general, crowd_priority, last_admit, session>>
        /\ UNCHANGED notAdm

\* Mutant: the absolute limit is tested with > instead of >=.
admission_rejects_offbyone(current_clients, is_priority) ==
    LET general_limit == MAX_CLIENTS - PRIORITY_RESERVED
    IN  IF current_clients > MAX_CLIENTS THEN TRUE
        ELSE IF current_clients >= general_limit /\ ~is_priority THEN TRUE
        ELSE FALSE

\* The connection limiting of handle_client (lines 1889-1902): TRUE when the
\* websocket is closed with code 1013.
admission_rejects(current_clients, is_priority) ==
    LET general_limit == MAX_CLIENTS - PRIORITY_RESERVED
    IN  IF current_clients >= MAX_CLIENTS THEN TRUE
        ELSE IF current_clients >= general_limit /\ ~is_priority THEN TRUE
        ELSE FALSE

\* handle_client up to clients.add(handler): nothing is awaited between the
\* check of len(clients) and the add.  The handler does not keep is_priority;
\* the crowd is counted by what each session's own handshake carried.
handle_client_admit(c) ==
    LET is_priority == DictGet(client_priority, c, FALSE)
    IN  /\ c \in DOMAIN client_priority
        /\ client_priority' = DictDel(client_priority, c)
        /\ merit' = [merit EXCEPT ![c] = FALSE]
        /\ IF admission_rejects(len_clients, is_priority)
           THEN /\ last_admit' = [code |-> 1013, merit |-> merit[c]]
                /\ UNCHANGED <<crowd_general, crowd_priority, client_real_ips>>
           ELSE /\ last_admit' = [code |-> 0, merit |-> merit[c]]
                /\ client_real_ips' = DictDel(client_real_ips, c)
                /\ crowd_general' = IF merit[c] THEN crowd_general ELSE crowd_general + 1
                /\ crowd_priority' = IF merit[c] THEN crowd_priority + 1 ELSE crowd_priority
        /\ UNCHANGED session
        /\ UNCHANGED notAdm

\* The finally block of handle_client for a session of the crowd:
\* clients.discard(handler).
crowd_leave ==
    /\ \/ crowd_general > MAX_CLIENTS - PRIORITY_RESERVED - Slack
          /\ crowd_general' = crowd_general - 1
          /\ UNCHANGED crowd_priority
       \/ crowd_priority > 0 /\ crowd_priority' = crowd_priority - 1
          /\ UNCHANGED crowd_general
    /\ UNCHANGED <<client_priority, client_real_ips, merit, last_admit, session>>
    /\ UNCHANGED notAdm

(***************************************************************************)
(* Messages of the fan-out layer.                                          *)
(***************************************************************************)
\* The poison pill close() puts on the queue (None in the source).
None == [type |-> "None"]

StateMsg == [type |-> "state"]

HistoryMsg == [type |-> "history"]

\* The outbound event of the n-th record the tailer hands to buffer_event.
Event(n) == [type |-> "event", n |-> n]

\* Mutant: the batch lists the newest event first.
BatchNewestFirst(events) ==
    [type |-> "event_batch",
     events |-> [i \in 1..Len(events) |-> events[Len(events) + 1 - i]]]

\* json_encode({"type": "event_batch", "events": events_to_send})
Batch(events) == [type |-> "event_batch", events |-> events]

(***************************************************************************)
(* tail_log, lines 1836-1838: the event of a record is appended to the     *)
(* batch buffer (buffer_event, lines 1728-1731).  The lock is never held   *)
(* across a suspension, so the append is one step.                         *)
(***************************************************************************)
buffer_event ==
    /\ enq_count < Backlog + 1 + MaxEvents
    /\ enq_count' = enq_count + 1
    /\ event_buffer' = Append(event_buffer, Event(enq_count + 1))
    /\ UNCHANGED <<clients, queue, dropped_count, closed, sender, inflight, ws, sent>>
    /\ UNCHANGED notFan

(***************************************************************************)
(* One round of flush_event_buffer (lines 1737-1750): an empty buffer is   *)
(* skipped; otherwise the buffer is swapped out and, if a client is        *)
(* connected, one event_batch message is enqueued to every client.         *)
(***************************************************************************)
\* Mutant: the buffer is sent without being swapped out.
flush_event_buffer_keeps ==
    /\ event_buffer # <<>>
    /\ event_buffer' = event_buffer
    /\ IF clients # {}
       THEN EnqueueAll(clients, Batch(event_buffer))
       ELSE UNCHANGED <<queue, dropped_count>>
    /\ UNCHANGED <<clients, closed, sender, inflight, ws, sent, enq_count>>
    /\ UNCHANGED notFan

flush_event_buffer ==
    /\ event_buffer # <<>>
    /\ event_buffer' = <<>>
    /\ IF clients # {}
       THEN EnqueueAll(clients, Batch(event_buffer))
       ELSE UNCHANGED <<queue, dropped_count>>
    /\ UNCHANGED <<clients, closed, sender, inflight, ws, sent, enq_count>>
    /\ UNCHANGED notFan

(***************************************************************************)
(* ClientHandler._sender (lines 252-266).  "wait": suspended in            *)
(* queue.get(); "sending": suspended in ws.send(msg) holding msg;          *)
(* "exited": the task has returned.                                        *)
(***************************************************************************)
sender_get(h) ==
    /\ sender[h] = "wait"
    /\ ~closed[h]
    /\ queue[h] # <<>>
    /\ Len(sent[h]) < MaxSent
    /\ queue' = [queue EXCEPT ![h] = Tail(queue[h])]
    /\ IF Head(queue[h]) = None
       THEN /\ sender' = [sender EXCEPT ![h] = "exited"]
            /\ UNCHANGED inflight
       ELSE /\ sender' = [sender EXCEPT ![h] = "sending"]
            /\ inflight' = [inflight EXCEPT ![h] = Head(queue[h])]
    /\ UNCHANGED <<clients, dropped_count, closed, ws, sent, event_buffer, enq_count>>
    /\ UNCHANGED notFan

\* ws.send(msg) returns: the message is on the socket
sender_sent(h) ==
    /\ sender[h] = "sending"
    /\ ws[h] = "open"
    /\ sent' = [sent EXCEPT ![h] = Append(sent[h], inflight[h])]
    /\ inflight' = [inflight EXCEPT ![h] = NoMsg]
    /\ sender' = [sender EXCEPT ![h] = IF closed[h] THEN "exited" ELSE "wait"]
    /\ UNCHANGED <<clients, queue, dropped_count, closed, ws, event_buffer, enq_count>>
    /\ UNCHANGED notFan

\* ws.send(msg) raises (ConnectionClosed or any other exception): break
sender_failed(h) ==
    /\ sender[h] = "sending"
    /\ ws[h] = "closed"
    /\ inflight' = [inflight EXCEPT ![h] = NoMsg]
    /\ sender' = [sender EXCEPT ![h] = "exited"]
    /\ UNCHANGED <<clients, queue, dropped_count, closed, ws, sent, event_buffer, enq_count>>
    /\ UNCHANGED notFan

\* The peer closes the connection or the socket fails.
socket_closed(h) ==
    /\ h \in clients
    /\ ws[h] = "open"
    /\ ws' = [ws EXCEPT ![h] = "closed"]
    /\ UNCHANGED <<clients, queue, dropped_count, closed, sender, inflight, sent,
                   event_buffer, enq_count>>
    /\ UNCHANGED notFan

(***************************************************************************)
(* ClientHandler.close (lines 299-320): _closed is set, the poison pill is *)
(* put on the queue (one item is cleared first when the queue is full) and *)
(* the sender task is cancelled.                                           *)
(***************************************************************************)
close_queue(q) ==
    IF ~QueueFull(q) THEN put_nowait(q, None)
    ELSE put_nowait(get_nowait(q), None)

\* The finally block of handle_client (lines 2001-2003), reached when the
\* read loop sees the connection closed.
handle_client_finally(h) ==
    /\ h \in clients
    /\ ws[h] = "closed"
    /\ clients' = clients \ {h}
    /\ closed' = [closed EXCEPT ![h] = TRUE]
    /\ queue' = [queue EXCEPT ![h] = close_queue(queue[h])]
    /\ sender' = [sender EXCEPT ![h] = "exited"]
    /\ inflight' = [inflight EXCEPT ![h] = NoMsg]
    /\ session' = [session EXCEPT ![h] = "done"]
    /\ UNCHANGED <<dropped_count, ws, sent, event_buffer, enq_count>>
    /\ UNCHANGED <<admRest, nameVars, netVars>>

(***************************************************************************)
(* Peer names.  A name is a sequence of characters; "a" and "b" stand for  *)
(* word characters, " " for white space and "$" for a character the        *)
(* fallback filter removes.                                                *)
(***************************************************************************)
Min(a, b) == IF a < b THEN a ELSE b

\* s[:n]
Prefix(s, n) == SubSeq(s, 1, Min(n, Len(s)))

RECURSIVE lstrip(_)
lstrip(s) == IF s # <<>> /\ Head(s) = " " THEN lstrip(Tail(s)) ELSE s

RECURSIVE rstrip(_)
rstrip(s) ==
    IF s # <<>> /\ s[Len(s)] = " " THEN rstrip(SubSeq(s, 1, Len(s) - 1)) ELSE s

\* str.strip()
strip(s) == rstrip(lstrip(s))

IsAllowedChar(ch) == ch \in {"a", "b", " ", "-", "_", ".", "!", "/"}

\* re.sub(r'[^\w\s\-_.!/]', '', name)
regex_filter(s) == SelectSeq(s, IsAllowedChar)

\* A sanitize_name result (sanitized_name, rejection_reason); none_name and
\* none_reason say that the component is None.
Result(nm, none_name, reason, none_reason) ==
    [name |-> nm, none_name |-> none_name, reason |-> reason, none_reason |-> none_reason]

\* What the classifier call can do: answer "safe" or "reject: political", or
\* raise ("error").  sanitize_name takes "off" when no call is made.
Moderation == {"safe", "reject: political", "error"}

\* Whether the classifier is configured (OPENAI_AVAILABLE and OPENAI_API_KEY,
\* lines 28-50): the deployment the model describes has it.
OPENAI_AVAILABLE == TRUE

(***************************************************************************)
(* sanitize_name (lines 109-174).                                          *)
(***************************************************************************)
sanitize_name(nm, llm) ==
    IF nm = <<>> THEN Result(<<>>, TRUE, "Empty name", FALSE)
    ELSE IF Len(nm) > 30 THEN Result(Prefix(nm, 30), FALSE, "Name too long", FALSE)
    ELSE LET stripped == strip(nm) IN
         IF stripped = <<>> THEN Result(<<>>, TRUE, "Empty name", FALSE)
         ELSE IF llm \in {"off", "error"}
              THEN Result(Prefix(regex_filter(stripped), 20), FALSE, "", TRUE)
         ELSE IF llm = "reject: political" THEN Result(<<>>, TRUE, "political", FALSE)
         ELSE Result(Prefix(stripped, 20), FALSE, "", TRUE)

\* "if sanitized:" in handle_client
Truthy(res) == ~res.none_name /\ res.name # <<>>

\* time.time() - t < NAME_CHANGE_WINDOW, with the clock in milliseconds
InWindow(t, at) == at - t < NAME_CHANGE_WINDOW * 1000

\* recent = [t for t in name_change_timestamps[ip_hash] if now - t < NAME_CHANGE_WINDOW]
recent_changes(h) ==
    SelectSeq(name_change_timestamps[h], LAMBDA t : InWindow(t, now))

\* Mutant: the rate limit never refuses.
rate_limit_never_refuses(h) == TRUE

\* check_rate_limit (lines 61-78): the "allowed" component of its result
rate_limit_allowed(h) ==
    IF h \notin DOMAIN name_change_timestamps THEN TRUE
    ELSE Len(recent_changes(h)) < NAME_CHANGE_LIMIT

\* check_rate_limit: what it leaves in name_change_timestamps
rate_limit_filtered(h) ==
    IF h \notin DOMAIN name_change_timestamps THEN name_change_timestamps
    ELSE DictPut(name_change_timestamps, h, recent_changes(h))

\* check_rate_limit: wait_time // 60 of the refusal, in minutes
rate_limit_wait_min(h) ==
    LET rec == recent_changes(h)
        oldest == CHOOSE t \in {rec[i] : i \in 1..Len(rec)} :
                      \A i \in 1..Len(rec) : t <= rec[i]
        wait_time == (NAME_CHANGE_WINDOW * 1000 - (now - oldest)) \div 1000 + 1
    IN  wait_time \div 60

\* record_name_change (lines 81-86)
record_name_change(ts, h) ==
    DictPut(ts, h, Append(DictGet(ts, h, <<>>), now))

NameResult(ok, nm, err) == [type |-> "name_set_result", success |-> ok, name |-> nm, error |-> err]

NameUpdate(h, nm) == [type |-> "peer_name_update", ip_hash |-> h, name |-> nm]

REJECTION_MESSAGES(reason) ==
    IF reason = "political" THEN "Political slogans and advocacy aren't allowed"
    ELSE IF reason = "offensive" THEN "That name contains offensive content"
    ELSE IF reason = "religious" THEN "Religious proclamations aren't allowed"
    ELSE <<"Name not allowed: ", reason>>

NotNaming == [busy |-> FALSE, name |-> <<>>]

\* handler -> set_peer_name requests it has sent (a bound of the model)
NameRequests(h) == Len(SelectSeq(sent[h], LAMBDA m : m.type = "name_set_result"))
                   + (IF naming[h].busy THEN 1 ELSE 0)

\* sanitize_name suspends the handler (await asyncio.to_thread) only when the
\* classifier is configured and the name passes the length test
Suspends(nm) == OPENAI_AVAILABLE /\ nm # <<>> /\ Len(nm) <= 30 /\ strip(nm) # <<>>

(***************************************************************************)
(* handle_client after sanitize_name returned res (lines 1961-1989): on a  *)
(* truthy name the map is written, the change recorded on top of the       *)
(* timestamps ts, peer_name_update enqueued to every client and the        *)
(* success reply sent; otherwise the rejection reply is sent.              *)
(***************************************************************************)
name_checked(h, res, ts) ==
    LET hash == ip_hash(client_ip[h]) IN
    IF Truthy(res)
    THEN /\ peer_names' = DictPut(peer_names, hash, res.name)
         /\ name_change_timestamps' = record_name_change(ts, hash)
         /\ accepted' = Append(accepted, <<hash, now>>)
         /\ EnqueueAll(clients, NameUpdate(hash, res.name))
         /\ sent' = [sent EXCEPT ![h] = Append(sent[h], NameResult(TRUE, res.name, ""))]
    ELSE /\ sent' = [sent EXCEPT ![h] = Append(sent[h],
                         NameResult(FALSE, <<>>,
                             REJECTION_MESSAGES(IF res.none_reason THEN "None" ELSE res.reason)))]
         /\ name_change_timestamps' = ts
         /\ UNCHANGED <<peer_names, accepted, queue, dropped_count>>

(***************************************************************************)
(* handle_client, set_peer_name (lines 1946-1996): the message arrives and *)
(* the rate limit is checked.  A refused request is answered at once; an   *)
(* allowed one goes to sanitize_name, where the handler either suspends    *)
(* (the classifier is called) or gets the result without suspending.       *)
(***************************************************************************)
set_peer_name(h, raw) ==
    LET nm == strip(raw)
        hash == ip_hash(client_ip[h])
    IN  /\ h \in clients
        /\ ws[h] = "open"
        /\ ~naming[h].busy
        /\ NameRequests(h) < MaxNameRequests
        /\ IF hash # "" /\ nm # <<>>
           THEN IF ~rate_limit_allowed(hash)
                THEN /\ name_change_timestamps' = rate_limit_filtered(hash)
                     /\ sent' = [sent EXCEPT ![h] = Append(sent[h],
                                   NameResult(FALSE, <<>>,
                                       <<"Too many changes. Try again in", rate_limit_wait_min(hash)>>))]
                     /\ UNCHANGED <<naming, peer_names, accepted, queue, dropped_count>>
                ELSE IF Suspends(nm)
                THEN /\ name_change_timestamps' = rate_limit_filtered(hash)
                     /\ naming' = [naming EXCEPT ![h] = [busy |-> TRUE, name |-> nm]]
                     /\ UNCHANGED <<sent, peer_names, accepted, queue, dropped_count>>
                ELSE /\ name_checked(h, sanitize_name(nm, "off"), rate_limit_filtered(hash))
                     /\ UNCHANGED naming
           ELSE IF hash = ""
           THEN /\ sent' = [sent EXCEPT ![h] = Append(sent[h],
                                   NameResult(FALSE, <<>>, "Cannot identify your peer"))]
                /\ UNCHANGED <<name_change_timestamps, naming, peer_names, accepted,
                               queue, dropped_count>>
           ELSE UNCHANGED <<sent, name_change_timestamps, naming, peer_names, accepted,
                            queue, dropped_count>>
        /\ UNCHANGED <<clients, closed, sender, inflight, ws, event_buffer, enq_count>>
        /\ UNCHANGED <<now, client_ip>>
        /\ UNCHANGED <<admVars, netVars>>

(***************************************************************************)
(* The classifier call of a suspended set_peer_name request returns with   *)
(* the answer llm, and the handler goes on.                                *)
(***************************************************************************)
set_peer_name_moderated(h, llm) ==
    /\ naming[h].busy
    /\ naming' = [naming EXCEPT ![h] = NotNaming]
    /\ name_checked(h, sanitize_name(naming[h].name, llm), name_change_timestamps)
    /\ UNCHANGED <<clients, closed, sender, inflight, ws, event_buffer, enq_count>>
    /\ UNCHANGED <<now, client_ip>>
    /\ UNCHANGED <<admVars, netVars>>

\* time passes
clock_advance ==
    /\ now < ClockStep * 60000 * MaxTicks
    /\ now' = now + ClockStep * 60000
    /\ UNCHANGED <<client_ip, peer_names, name_change_timestamps, naming, accepted>>
    /\ UNCHANGED <<fanVars, admVars, netVars>>


(***************************************************************************)
(* The network model (lines 331-361, 464, 468).  The indexes are gathered  *)
(* in one record, a "world", so that the steps of process_record and of    *)
(* cleanup_stale_peers can be applied one after the other as in the code.  *)
(***************************************************************************)
PrivateIP == "10.0.0.1"

PublicIPs == {PeerIP, OtherIP}

PeerIds == {"P", "Q"}

ContractKey == "K"

\* location None
NoLoc == -1

\* shutdown_time None
NoTime == -1

\* 30 minutes, in milliseconds
STALE_PEER_THRESHOLD_NS == 30 * 60 * 1000

\* 5 minutes, in milliseconds
STALE_PENDING_OP_NS == 5 * 60 * 1000

\* 2 hours, in milliseconds
STALE_PROPAGATION_NS == 2 * 60 * 60 * 1000

\* 5 minutes, in milliseconds
PROPAGATION_WINDOW_NS == 5 * 60 * 1000

\* Mutant: the test for the 10. prefix is missing.
is_public_ip_without_10(ip) == ip \notin {"", "127.0.0.1", "localhost"}

\* ip.startswith("127.") or "172." or "10." or "192.168." or "0.", or "localhost"
is_public_ip(ip) == ip \notin {"", PrivateIP, "127.0.0.1", "localhost"}

Max(a, b) == IF a > b THEN a ELSE b

Restrict(d, keys) == [x \in keys |-> d[x]]

World ==
    [peers |-> peers, connections |-> connections,
     ip_to_peer_id |-> ip_to_peer_id, peer_id_to_ip |-> peer_id_to_ip,
     attrs_peer_id_to_ip |-> attrs_peer_id_to_ip, peer_presence |-> peer_presence,
     subscriptions |-> subscriptions, seeding_state |-> seeding_state,
     contract_states |-> contract_states, contract_propagation |-> contract_propagation,
     peer_lifecycle |-> peer_lifecycle, pending_ops |-> pending_ops]

\* the world w becomes the next state of the indexes
Install(w) ==
    /\ peers' = w.peers
    /\ connections' = w.connections
    /\ ip_to_peer_id' = w.ip_to_peer_id
    /\ peer_id_to_ip' = w.peer_id_to_ip
    /\ attrs_peer_id_to_ip' = w.attrs_peer_id_to_ip
    /\ peer_presence' = w.peer_presence
    /\ subscriptions' = w.subscriptions
    /\ seeding_state' = w.seeding_state
    /\ contract_states' = w.contract_states
    /\ contract_propagation' = w.contract_propagation
    /\ peer_lifecycle' = w.peer_lifecycle
    /\ pending_ops' = w.pending_ops

(***************************************************************************)
(* Telemetry records.  A peer string "id@ip:port (@ location)" is the      *)
(* triple <<id, ip, location>>; an absent field is <<>> and a string the   *)
(* pattern does not match is any other sequence.  An address "ip:port" is  *)
(* its ip, "" when the field is absent.                                    *)
(***************************************************************************)
PeerStr(peer_id, ip, location) == <<peer_id, ip, location>>

Malformed == <<"?">>

\* parse_peer_string (lines 536-546)
parse_peer_string(peer_str) ==
    IF Len(peer_str) = 3
    THEN [peer_id |-> peer_str[1], ip |-> peer_str[2], location |-> peer_str[3]]
    ELSE [peer_id |-> "", ip |-> "", location |-> NoLoc]

\* A record with attrs event_type and peer_id and an otherwise empty body.
Record(event_type, peer_id, timestamp) ==
    [event_type |-> event_type, peer_id |-> peer_id, timestamp |-> timestamp,
     id |-> "", key |-> "", state_hash |-> "", state_hash_after |-> "",
     this_peer |-> <<>>, connected_peer |-> <<>>, target |-> <<>>,
     this_peer_addr |-> "", from_peer_addr |-> "",
     sender |-> <<>>, broadcast_to |-> <<>>]

\* event_peer_id and event_peer_ip (lines 896-907)
event_peer(rec) ==
    LET a == parse_peer_string(rec.this_peer)
        b == parse_peer_string(rec.target)
    IN  [id |-> IF rec.peer_id # "" THEN rec.peer_id
                ELSE IF a.peer_id # "" THEN a.peer_id ELSE b.peer_id,
         ip |-> IF a.ip # "" THEN a.ip ELSE b.ip]

\* the other peer (lines 1150-1157): the first of connected_peer, target that
\* is present decides unless it does not parse
other_peer(rec) ==
    LET c == parse_peer_string(rec.connected_peer)
        t == parse_peer_string(rec.target)
    IN  IF rec.connected_peer # <<>> /\ c.ip # "" THEN c
        ELSE IF rec.target # <<>> THEN t
        ELSE c

\* peers[ip]["last_seen"] = timestamp, for a known peer
refresh(w, ip, timestamp) ==
    IF ip \in DOMAIN w.peers
    THEN [w EXCEPT !.peers = [@ EXCEPT ![ip].last_seen = timestamp]]
    ELSE w

\* lines 909-914
liveness(w, rec) ==
    LET ep == event_peer(rec) IN
    IF ep.id # "" /\ ep.id \in DOMAIN w.peer_id_to_ip
    THEN refresh(w, w.peer_id_to_ip[ep.id], rec.timestamp)
    ELSE w

\* Mutant: a peer is recorded however late it reports the hash.
update_propagation_tracking_no_window(w, contract_key, peer_id, state_hash, timestamp) ==
    LET has == contract_key \in DOMAIN w.contract_propagation
        prop == w.contract_propagation[contract_key]
        fresh == [current_hash |-> state_hash, first_seen |-> timestamp,
                  last_seen |-> timestamp, peers |-> DictPut(<<>>, peer_id, timestamp),
                  previous |-> IF has /\ DOMAIN prop.peers # {}
                               THEN [hash |-> prop.current_hash,
                                     first_seen |-> prop.first_seen,
                                     propagation_ms |-> prop.last_seen - prop.first_seen,
                                     peer_count |-> Cardinality(DOMAIN prop.peers)]
                               ELSE IF has THEN prop.previous ELSE None]
    IN  IF ~has \/ prop.current_hash # state_hash
        THEN [w EXCEPT !.contract_propagation = DictPut(@, contract_key, fresh)]
        ELSE IF peer_id \notin DOMAIN prop.peers
        THEN [w EXCEPT !.contract_propagation = DictPut(@, contract_key,
                 [prop EXCEPT !.peers = DictPut(@, peer_id, timestamp),
                              !.last_seen = Max(@, timestamp)])]
        ELSE w

\* update_propagation_tracking (lines 389-420)
update_propagation_tracking(w, contract_key, peer_id, state_hash, timestamp) ==
    LET has == contract_key \in DOMAIN w.contract_propagation
        prop == w.contract_propagation[contract_key]
        fresh == [current_hash |-> state_hash, first_seen |-> timestamp,
                  last_seen |-> timestamp, peers |-> DictPut(<<>>, peer_id, timestamp),
                  previous |-> IF has /\ DOMAIN prop.peers # {}
                               THEN [hash |-> prop.current_hash,
                                     first_seen |-> prop.first_seen,
                                     propagation_ms |-> prop.last_seen - prop.first_seen,
                                     peer_count |-> Cardinality(DOMAIN prop.peers)]
                               ELSE IF has THEN prop.previous ELSE None]
    IN  IF ~has \/ prop.current_hash # state_hash
        THEN [w EXCEPT !.contract_propagation = DictPut(@, contract_key, fresh)]
        ELSE IF peer_id \notin DOMAIN prop.peers
                /\ timestamp - prop.first_seen <= PROPAGATION_WINDOW_NS
        THEN [w EXCEPT !.contract_propagation = DictPut(@, contract_key,
                 [prop EXCEPT !.peers = DictPut(@, peer_id, timestamp),
                              !.last_seen = Max(@, timestamp)])]
        ELSE w

\* Mutant: an update as old as the stored one replaces it.
update_contract_state_replaces_equal(w, contract_key, peer_id, state_hash, timestamp, event_type) ==
    IF contract_key = "" \/ peer_id = "" \/ state_hash = "" THEN w
    ELSE LET byPeer == DictGet(w.contract_states, contract_key, <<>>) IN
         IF peer_id \in DOMAIN byPeer /\ byPeer[peer_id].timestamp > timestamp THEN w
         ELSE LET w1 == [w EXCEPT !.contract_states = DictPut(@, contract_key,
                            DictPut(byPeer, peer_id,
                                [hash |-> state_hash, timestamp |-> timestamp,
                                 event_type |-> event_type]))]
              IN  IF event_type \in {"update_success", "update_broadcast_applied",
                                     "update_broadcast_emitted"}
                  THEN update_propagation_tracking(w1, contract_key, peer_id, state_hash, timestamp)
                  ELSE w1

\* update_contract_state (lines 364-386)
update_contract_state(w, contract_key, peer_id, state_hash, timestamp, event_type) ==
    IF contract_key = "" \/ peer_id = "" \/ state_hash = "" THEN w
    ELSE LET byPeer == DictGet(w.contract_states, contract_key, <<>>) IN
         IF peer_id \in DOMAIN byPeer /\ byPeer[peer_id].timestamp >= timestamp THEN w
         ELSE LET w1 == [w EXCEPT !.contract_states = DictPut(@, contract_key,
                            DictPut(byPeer, peer_id,
                                [hash |-> state_hash, timestamp |-> timestamp,
                                 event_type |-> event_type]))]
              IN  IF event_type \in {"update_success", "update_broadcast_applied",
                                     "update_broadcast_emitted"}
                  THEN update_propagation_tracking(w1, contract_key, peer_id, state_hash, timestamp)
                  ELSE w1

\* lines 916-930
track_contract_state(w, rec) ==
    LET ep == event_peer(rec) IN
    IF rec.key # "" /\ ep.id # "" /\ (ep.ip = "" \/ is_public_ip(ep.ip))
    THEN IF rec.event_type \in {"put_success", "get_success", "broadcast_emitted",
                                "update_broadcast_emitted", "update_broadcast_received"}
         THEN update_contract_state(w, rec.key, ep.id, rec.state_hash, rec.timestamp, rec.event_type)
         ELSE IF rec.event_type \in {"update_success", "update_broadcast_applied"}
         THEN update_contract_state(w, rec.key, ep.id, rec.state_hash_after, rec.timestamp, rec.event_type)
         ELSE w
    ELSE w

\* no call of update_contract_state
NoUpdate == [key |-> "", peer_id |-> "", hash |-> ""]

\* the update process_record(rec) offers to update_contract_state (lines 916-930)
offered_update(rec) ==
    LET ep == event_peer(rec)
        hash == IF rec.event_type \in {"put_success", "get_success", "broadcast_emitted",
                                       "update_broadcast_emitted", "update_broadcast_received"}
                THEN rec.state_hash
                ELSE IF rec.event_type \in {"update_success", "update_broadcast_applied"}
                THEN rec.state_hash_after
                ELSE ""
    IN  IF rec.key # "" /\ ep.id # "" /\ (ep.ip = "" \/ is_public_ip(ep.ip)) /\ hash # ""
        THEN [key |-> rec.key, peer_id |-> ep.id, hash |-> hash]
        ELSE NoUpdate

\* the (contract, identity) pairs that have a contract-state record
Pairs(cs) == UNION {{<<k, p>> : p \in DOMAIN cs[k]} : k \in DOMAIN cs}

\* pending_ops (lines 932-975)
track_pending_op(w, rec) ==
    IF rec.event_type \in {"put_request", "get_request", "update_request"} /\ rec.id # ""
    THEN [w EXCEPT !.pending_ops = DictPut(@, rec.id,
              [op |-> IF rec.event_type = "put_request" THEN "put"
                      ELSE IF rec.event_type = "get_request" THEN "get" ELSE "update",
               start_ns |-> rec.timestamp])]
    ELSE IF rec.event_type \in {"put_success", "get_success", "get_not_found", "update_success"}
            /\ rec.id # "" /\ rec.id \in DOMAIN w.pending_ops
    THEN [w EXCEPT !.pending_ops = DictDel(@, rec.id)]
    ELSE w

\* reporting_peer (lines 1011-1018)
reporting_peer(rec) ==
    IF rec.peer_id # "" THEN rec.peer_id ELSE parse_peer_string(rec.this_peer).peer_id

\* get_peer_state (lines 1020-1031): the entry it returns, created when missing
get_peer_state(w, contract_key, peer_id) ==
    LET byPeer == DictGet(w.seeding_state, contract_key, <<>>) IN
    IF peer_id \in DOMAIN byPeer THEN byPeer[peer_id]
    ELSE [is_seeding |-> FALSE, upstream |-> "", downstream |-> <<>>, downstream_count |-> 0]

\* seeding events (lines 1033-1104)
track_seeding(w, rec) ==
    LET rp == reporting_peer(rec)
        byPeer == DictGet(w.seeding_state, rec.key, <<>>)
    IN  IF rec.event_type = "seeding_started" /\ rec.key # "" /\ rp # ""
        THEN [w EXCEPT !.seeding_state = DictPut(@, rec.key,
                  DictPut(byPeer, rp, [get_peer_state(w, rec.key, rp) EXCEPT !.is_seeding = TRUE]))]
        ELSE IF rec.event_type = "seeding_stopped" /\ rec.key # "" /\ rp # ""
                /\ rec.key \in DOMAIN w.seeding_state /\ rp \in DOMAIN byPeer
        THEN [w EXCEPT !.seeding_state = DictPut(@, rec.key,
                  DictPut(byPeer, rp, [byPeer[rp] EXCEPT !.is_seeding = FALSE]))]
        ELSE w

\* peer_startup and peer_shutdown (lines 1113-1135)
track_lifecycle(w, rec) ==
    IF rec.event_type = "peer_startup" /\ rec.peer_id # ""
    THEN [w EXCEPT !.peer_lifecycle = DictPut(@, rec.peer_id,
              [startup_time |-> rec.timestamp, shutdown_time |-> NoTime])]
    ELSE IF rec.event_type = "peer_shutdown" /\ rec.peer_id # ""
            /\ rec.peer_id \in DOMAIN w.peer_lifecycle
    THEN [w EXCEPT !.peer_lifecycle = [@ EXCEPT ![rec.peer_id].shutdown_time = rec.timestamp]]
    ELSE w

\* last_seen from the address fields (lines 1159-1165)
refresh_addr(w, addr, timestamp) ==
    IF addr # "" /\ is_public_ip(addr) THEN refresh(w, addr, timestamp) ELSE w

refresh_from_addresses(w, rec) ==
    refresh_addr(refresh_addr(w, rec.this_peer_addr, rec.timestamp),
                 rec.from_peer_addr, rec.timestamp)

\* attrs_peer_id -> ip (lines 1169-1180)
track_attrs_peer_id(w, rec) ==
    LET this_ip == parse_peer_string(rec.this_peer).ip
        w1 == IF this_ip # "" /\ is_public_ip(this_ip)
              THEN [w EXCEPT !.attrs_peer_id_to_ip = DictPut(@, rec.peer_id, this_ip)]
              ELSE w
    IN  IF rec.peer_id = "" THEN w
        ELSE IF rec.this_peer_addr # "" /\ is_public_ip(rec.this_peer_addr)
        THEN [w1 EXCEPT !.attrs_peer_id_to_ip = DictPut(@, rec.peer_id, rec.this_peer_addr)]
        ELSE IF rec.from_peer_addr # "" /\ is_public_ip(rec.from_peer_addr)
        THEN [w1 EXCEPT !.attrs_peer_id_to_ip = DictPut(@, rec.peer_id, rec.from_peer_addr)]
        ELSE w1

\* d with the entries of the identities pids removed from every contract, and
\* the contracts left empty removed
PrunePeerIds(d, pids) ==
    LET d1 == [k \in DOMAIN d |-> Restrict(d[k], DOMAIN d[k] \ pids)]
    IN  Restrict(d1, {k \in DOMAIN d1 : DOMAIN d1[k] # {}})

\* cleanup_stale_peer_id (lines 512-533)
cleanup_stale_peer_id(w, old_peer_id) ==
    [w EXCEPT !.seeding_state = PrunePeerIds(@, {old_peer_id}),
              !.contract_states = PrunePeerIds(@, {old_peer_id})]

\* one round of the loop of lines 1184-1229
update_peer(w, ip, loc, peer_id, timestamp) ==
    LET known == ip # "" /\ is_public_ip(ip)
        w1 == IF known THEN refresh(w, ip, timestamp) ELSE w
        old_peer_id == DictGet(w1.ip_to_peer_id, ip, "")
        created ==
            [w1 EXCEPT !.peers = DictPut(@, ip,
                           [id |-> anonymize_ip(ip), ip_hash |-> ip_hash(ip),
                            location |-> loc, last_seen |-> timestamp,
                            connections |-> {}, peer_id |-> peer_id]),
                       !.ip_to_peer_id = IF peer_id # "" THEN DictPut(@, ip, peer_id) ELSE @,
                       !.peer_id_to_ip = IF peer_id # "" THEN DictPut(@, peer_id, ip) ELSE @]
        touched == [w1 EXCEPT !.peers = [@ EXCEPT ![ip].location = loc,
                                                  ![ip].last_seen = timestamp]]
        restarted ==
            IF old_peer_id # "" /\ old_peer_id # peer_id
            THEN [cleanup_stale_peer_id(touched, old_peer_id)
                     EXCEPT !.peer_id_to_ip = DictDel(@, old_peer_id)]
            ELSE touched
        updated ==
            IF peer_id = "" THEN touched
            ELSE [restarted EXCEPT !.peers = [@ EXCEPT ![ip].peer_id = peer_id],
                                   !.ip_to_peer_id = DictPut(@, ip, peer_id),
                                   !.peer_id_to_ip = DictPut(@, peer_id, ip)]
        w2 == IF ip \notin DOMAIN w1.peers THEN created ELSE updated
    IN  IF ~(known /\ loc # NoLoc) THEN w1
        ELSE IF ip \notin DOMAIN w2.peer_presence
        THEN [w2 EXCEPT !.peer_presence = DictPut(@, ip,
                  [id |-> anonymize_ip(ip), ip_hash |-> ip_hash(ip), location |-> loc,
                   first_seen |-> timestamp, peer_id |-> peer_id])]
        ELSE IF peer_id # "" /\ w2.peer_presence[ip].peer_id = ""
        THEN [w2 EXCEPT !.peer_presence = [@ EXCEPT ![ip].peer_id = peer_id]]
        ELSE w2

\* Mutant: only the reporting peer is recorded, not the peer it names.
update_peers_this_only(w, rec) ==
    LET this == parse_peer_string(rec.this_peer)
    IN  update_peer(w, this.ip, this.location, rec.peer_id, rec.timestamp)

\* lines 1182-1229
update_peers(w, rec) ==
    LET this == parse_peer_string(rec.this_peer)
        other == other_peer(rec)
    IN  update_peer(update_peer(w, this.ip, this.location, rec.peer_id, rec.timestamp),
                    other.ip, other.location, other.peer_id, rec.timestamp)

\* w with ip's neighbor set changed to nb, when ip is a known peer
set_neighbors(w, ip, nb) ==
    IF ip \in DOMAIN w.peers
    THEN [w EXCEPT !.peers = [@ EXCEPT ![ip].connections = nb]]
    ELSE w

neighbors(w, ip) == IF ip \in DOMAIN w.peers THEN w.peers[ip].connections ELSE {}

\* Mutant: the edge is added to the neighbor set of the reporting peer only.
connect_edge_one_sided(w, this_ip, other_ip) ==
    IF {this_ip, other_ip} \in w.connections THEN w
    ELSE LET w1 == [w EXCEPT !.connections = @ \cup {{this_ip, other_ip}}]
         IN  set_neighbors(w1, this_ip, neighbors(w1, this_ip) \cup {other_ip})

\* lines 1236-1243
connect_edge(w, this_ip, other_ip) ==
    IF {this_ip, other_ip} \in w.connections THEN w
    ELSE LET w1 == [w EXCEPT !.connections = @ \cup {{this_ip, other_ip}}]
             w2 == set_neighbors(w1, this_ip, neighbors(w1, this_ip) \cup {other_ip})
         IN  set_neighbors(w2, other_ip, neighbors(w2, other_ip) \cup {this_ip})

\* lines 1253-1260
disconnect_edge(w, this_ip, disconnected_ip) ==
    IF {this_ip, disconnected_ip} \notin w.connections THEN w
    ELSE LET w1 == [w EXCEPT !.connections = @ \ {{this_ip, disconnected_ip}}]
             w2 == set_neighbors(w1, this_ip, neighbors(w1, this_ip) \ {disconnected_ip})
         IN  set_neighbors(w2, disconnected_ip, neighbors(w2, disconnected_ip) \ {this_ip})

\* lines 1231-1260
track_connections(w, rec) ==
    LET this_ip == parse_peer_string(rec.this_peer).ip
        other_ip == other_peer(rec).ip
    IN  IF rec.event_type \in {"connect", "connected", "connect_connected"}
           /\ this_ip # "" /\ other_ip # ""
        THEN IF is_public_ip(this_ip) /\ is_public_ip(other_ip)
             THEN connect_edge(w, this_ip, other_ip)
             ELSE w
        ELSE IF rec.event_type = "disconnect" /\ rec.from_peer_addr # ""
                /\ this_ip # "" /\ is_public_ip(this_ip) /\ is_public_ip(rec.from_peer_addr)
        THEN disconnect_edge(w, this_ip, rec.from_peer_addr)
        ELSE w

EmptySubscription == [subscribers |-> {}, tree |-> <<>>]

RECURSIVE add_broadcast_targets(_, _, _)
\* the loop of lines 1297-1302
add_broadcast_targets(sub_data, sender_id, broadcast_to) ==
    IF broadcast_to = <<>> THEN sub_data
    ELSE LET target_ip == parse_peer_string(Head(broadcast_to)).ip
             next == IF target_ip # "" /\ is_public_ip(target_ip)
                     THEN [sub_data EXCEPT
                              !.tree = [@ EXCEPT ![sender_id] = @ \cup {anonymize_ip(target_ip)}],
                              !.subscribers = @ \cup {anonymize_ip(target_ip)}]
                     ELSE sub_data
         IN  add_broadcast_targets(next, sender_id, Tail(broadcast_to))

\* lines 1262-1302
track_subscriptions(w, rec) ==
    LET this_ip == parse_peer_string(rec.this_peer).ip
        subscriber_ip == IF this_ip # "" THEN this_ip ELSE event_peer(rec).ip
        sender_ip == parse_peer_string(rec.sender).ip
        sender_id == anonymize_ip(sender_ip)
        s0 == DictGet(w.subscriptions, rec.key, EmptySubscription)
        s1 == IF rec.event_type \in {"subscribed", "subscribe_success"}
                 /\ subscriber_ip # "" /\ is_public_ip(subscriber_ip)
              THEN [s0 EXCEPT !.subscribers = @ \cup {anonymize_ip(subscriber_ip)}]
              ELSE s0
        s2 == IF rec.event_type \in {"broadcast_emitted", "update_broadcast_emitted",
                                     "update_broadcast_received", "update_broadcast_applied"}
                 /\ sender_ip # "" /\ is_public_ip(sender_ip)
              THEN add_broadcast_targets(
                       [s1 EXCEPT !.tree = IF sender_id \in DOMAIN @ THEN @
                                           ELSE DictPut(@, sender_id, {})],
                       sender_id, rec.broadcast_to)
              ELSE s1
    IN  IF rec.key = "" THEN w
        ELSE [w EXCEPT !.subscriptions = DictPut(@, rec.key, s2)]

\* the indexes after process_record(rec) (lines 857-1302), in the order of the code
RecordEffect(w, rec) ==
    track_subscriptions(
     track_connections(
      update_peers(
       track_attrs_peer_id(
        refresh_from_addresses(
         track_lifecycle(
          track_seeding(
           track_pending_op(
            track_contract_state(
             liveness(w, rec), rec), rec), rec), rec), rec), rec), rec), rec), rec)

\* a key the event dict does not have
Absent == <<>>

\* the event process_record(rec) returns (lines 1304-1373); w is the world
\* the call started in
process_record_event(w, rec) ==
    LET this == parse_peer_string(rec.this_peer)
        other == other_peer(rec)
        this_public == this.ip # "" /\ is_public_ip(this.ip)
        other_public == other.ip # "" /\ is_public_ip(other.ip)
        display == IF this_public THEN this ELSE other
        connection_added ==
            /\ rec.event_type \in {"connect", "connected", "connect_connected"}
            /\ this_public /\ other_public
            /\ {this.ip, other.ip} \notin w.connections
        connection_removed ==
            /\ rec.event_type = "disconnect"
            /\ this_public
            /\ rec.from_peer_addr # "" /\ is_public_ip(rec.from_peer_addr)
            /\ {this.ip, rec.from_peer_addr} \in w.connections
    IN  IF ~this_public /\ ~other_public THEN None
        ELSE [type |-> "event",
              timestamp |-> rec.timestamp,
              event_type |-> rec.event_type,
              peer_id |-> anonymize_ip(display.ip),
              peer_ip_hash |-> ip_hash(display.ip),
              location |-> display.location,
              from_peer |-> IF this_public THEN anonymize_ip(this.ip) ELSE Absent,
              to_peer |-> IF other_public THEN anonymize_ip(other.ip) ELSE Absent,
              connection |-> IF connection_added
                             THEN <<anonymize_ip(this.ip), anonymize_ip(other.ip)>>
                             ELSE Absent,
              disconnection |-> IF connection_removed
                                THEN <<anonymize_ip(this.ip), anonymize_ip(rec.from_peer_addr)>>
                                ELSE Absent,
              contract_full |-> rec.key]

\* the identities the indexes of w bind to ip
BoundIds(w, ip) ==
    {pid \in PeerIds :
        \/ ip \in DOMAIN w.ip_to_peer_id /\ w.ip_to_peer_id[ip] = pid
        \/ pid \in DOMAIN w.peer_id_to_ip /\ w.peer_id_to_ip[pid] = ip
        \/ pid \in DOMAIN w.attrs_peer_id_to_ip /\ w.attrs_peer_id_to_ip[pid] = ip
        \/ ip \in DOMAIN w.peers /\ w.peers[ip].peer_id = pid}

(***************************************************************************)
(* cleanup_stale_peers (lines 572-693).                                    *)
(***************************************************************************)
\* step 1
stale_ips_of(w, now_ns) ==
    {ip \in DOMAIN w.peers : w.peers[ip].last_seen < now_ns - STALE_PEER_THRESHOLD_NS}

\* step 2 and the identities step 5 adds
stale_peer_ids_of(w, stale_ips) ==
    {w.ip_to_peer_id[ip] : ip \in stale_ips \cap DOMAIN w.ip_to_peer_id}
    \cup ({w.peers[ip].peer_id : ip \in stale_ips} \ {""})
    \cup {pid \in DOMAIN w.attrs_peer_id_to_ip : w.attrs_peer_id_to_ip[pid] \in stale_ips}

\* step 3: (anonymous id, ip) of the removed peers
removed_peers_of(w, stale_ips) == {<<w.peers[ip].id, ip>> : ip \in stale_ips}

stale_conns_of(w, stale_ips) == {conn \in w.connections : conn \cap stale_ips # {}}

\* step 8: the removed edges that are reported
removed_connections_of(w, stale_ips) ==
    {{anonymize_ip(ip) : ip \in conn} :
        conn \in {c \in stale_conns_of(w, stale_ips) : Cardinality(c) = 2}}

\* Mutant: step 8 leaves the neighbor sets of the surviving peers alone.
repair_survivors_skip(ps, stale_conns, stale_ips) == ps

\* step 8: the neighbor sets of the surviving endpoints of the removed edges
repair_survivors(ps, stale_conns, stale_ips) ==
    LET survivors == UNION {conn \ stale_ips : conn \in {c \in stale_conns : Cardinality(c) = 2}}
    IN  [ip \in DOMAIN ps |->
            IF ip \in survivors
            THEN [ps[ip] EXCEPT !.connections = @ \ stale_ips]
            ELSE ps[ip]]

\* step 11, one subscription entry
sweep_subscription(sub_data, stale_anon_ids) ==
    LET kept == {s \in DOMAIN sub_data.tree :
                    s \notin stale_anon_ids /\ sub_data.tree[s] \ stale_anon_ids # {}}
    IN  [subscribers |-> sub_data.subscribers \ stale_anon_ids,
         tree |-> [s \in kept |-> sub_data.tree[s] \ stale_anon_ids]]

\* step 12
sweep_propagation(cp, stale_peer_ids) ==
    LET cp1 == [k \in DOMAIN cp |->
                   [cp[k] EXCEPT !.peers = Restrict(@, DOMAIN @ \ stale_peer_ids)]]
    IN  Restrict(cp1, {k \in DOMAIN cp1 : DOMAIN cp1[k].peers # {}})

\* step 4: popping ip_to_peer_id[ip] pops the reverse entry of that identity
sweep_peer_id_to_ip(w, stale_ips) ==
    Restrict(w.peer_id_to_ip,
             DOMAIN w.peer_id_to_ip
                 \ {w.ip_to_peer_id[ip] : ip \in stale_ips \cap DOMAIN w.ip_to_peer_id})

\* the indexes after cleanup_stale_peers() at time now_ns
cleanup_stale_peers(w, now_ns) ==
    LET stale_ips == stale_ips_of(w, now_ns)
        stale_peer_ids == stale_peer_ids_of(w, stale_ips)
        stale_anon_ids == {anonymize_ip(ip) : ip \in stale_ips}
        subs == [k \in DOMAIN w.subscriptions |->
                    sweep_subscription(w.subscriptions[k], stale_anon_ids)]
    IN  IF stale_ips = {} THEN w
        ELSE [w EXCEPT
                !.peers = repair_survivors(Restrict(@, DOMAIN @ \ stale_ips),
                                           stale_conns_of(w, stale_ips), stale_ips),
                !.ip_to_peer_id = Restrict(@, DOMAIN @ \ stale_ips),
                !.peer_id_to_ip = sweep_peer_id_to_ip(w, stale_ips),
                !.attrs_peer_id_to_ip = Restrict(@, {pid \in DOMAIN @ : @[pid] \notin stale_ips}),
                !.peer_presence = Restrict(@, DOMAIN @ \ stale_ips),
                !.peer_lifecycle = Restrict(@, DOMAIN @ \ stale_peer_ids),
                !.connections = @ \ stale_conns_of(w, stale_ips),
                !.seeding_state = PrunePeerIds(@, stale_peer_ids),
                !.contract_states = PrunePeerIds(@, stale_peer_ids),
                !.subscriptions = Restrict(subs,
                    {k \in DOMAIN subs : subs[k].subscribers # {} \/ DOMAIN subs[k].tree # {}}),
                !.contract_propagation = sweep_propagation(@, stale_peer_ids)]

\* cleanup_stale_pending_ops (lines 696-713)
cleanup_stale_pending_ops(w, now_ns) ==
    [w EXCEPT !.pending_ops =
        Restrict(@, {tx \in DOMAIN @ : ~(@[tx].start_ns < now_ns - STALE_PENDING_OP_NS)})]

\* cleanup_stale_propagation (lines 716-736)
cleanup_stale_propagation(w, now_ns) ==
    [w EXCEPT !.contract_propagation =
        Restrict(@, {k \in DOMAIN @ : ~(@[k].last_seen < now_ns - STALE_PROPAGATION_NS)})]

PeersRemoved(removed_peers, stale_peer_ids, removed_connections) ==
    [type |-> "peers_removed",
     peers |-> {rp[1] : rp \in removed_peers},
     peer_ids |-> stale_peer_ids,
     connections |-> removed_connections]

\* the newest timestamps offered, after process_record(rec) led from w to v
offered_after(w, v, rec) ==
    LET u == offered_update(rec)
    IN  [kp \in Pairs(v.contract_states) |->
            IF kp \notin Pairs(w.contract_states) THEN rec.timestamp
            ELSE IF kp = <<u.key, u.peer_id>> THEN Max(offered[kp], rec.timestamp)
            ELSE offered[kp]]

\* one call process_record(rec) by the tailer (tail_log, line 1836)
handle_record(rec) ==
    /\ records' = records + 1
    /\ Install(RecordEffect(World, rec))
    /\ last_event' = process_record_event(World, rec)
    /\ associated' = [ip \in DOMAIN associated |->
                         associated[ip] \cup BoundIds(RecordEffect(World, rec), ip)]
    /\ offered' = offered_after(World, RecordEffect(World, rec), rec)
    /\ UNCHANGED <<event_history, transactions, transaction_order, latencies, percentiles, op_stats, tailVars>>
    /\ UNCHANGED <<network_state, fanVars, admVars, nameVars>>

(***************************************************************************)
(* The tailer hands one telemetry record, stamped with the current time,   *)
(* to process_record.                                                      *)
(***************************************************************************)
process_record(record) ==
    /\ records < MaxRecords
    /\ handle_record([record EXCEPT !.timestamp = now])

(***************************************************************************)
(* The tailer hands process_record a record of a log that is read late or  *)
(* out of order: the record carries its own timestamp ts.                  *)
(***************************************************************************)
replay_record(record, ts) ==
    /\ records < MaxReplay
    /\ handle_record([record EXCEPT !.timestamp = ts])

(***************************************************************************)
(* One round of periodic_cleanup (lines 1756-1781): the three sweeps, then *)
(* peers_removed to every client when something was removed.               *)
(***************************************************************************)
periodic_cleanup ==
    LET stale_ips == stale_ips_of(World, now)
        removed_peers == removed_peers_of(World, stale_ips)
        removed_connections == removed_connections_of(World, stale_ips)
        stale_peer_ids == stale_peer_ids_of(World, stale_ips)
    IN  /\ Install(cleanup_stale_propagation(
                       cleanup_stale_pending_ops(cleanup_stale_peers(World, now), now), now))
        /\ IF clients # {} /\ (removed_peers # {} \/ removed_connections # {})
           THEN EnqueueAll(clients, PeersRemoved(removed_peers, stale_peer_ids, removed_connections))
           ELSE UNCHANGED <<queue, dropped_count>>
        /\ UNCHANGED <<clients, closed, sender, inflight, ws, sent, event_buffer, enq_count>>
        /\ offered' = Restrict(offered,
               Pairs(cleanup_stale_peers(World, now).contract_states))
        /\ UNCHANGED <<associated, records, last_event>>
        /\ UNCHANGED <<event_history, transactions, transaction_order, latencies, percentiles,
                       op_stats, tailVars, network_state>>
        /\ UNCHANGED <<admVars, nameVars>>

\* the indexes at start-up, before any record
EmptyWorld ==
    [peers |-> <<>>, connections |-> {},
     ip_to_peer_id |-> <<>>, peer_id_to_ip |-> <<>>,
     attrs_peer_id_to_ip |-> <<>>, peer_presence |-> <<>>,
     subscriptions |-> <<>>, seeding_state |-> <<>>,
     contract_states |-> <<>>, contract_propagation |-> <<>>,
     peer_lifecycle |-> <<>>, pending_ops |-> <<>>]

\* the indexes are those of the world w
NetIs(w) ==
    /\ peers = w.peers
    /\ connections = w.connections
    /\ ip_to_peer_id = w.ip_to_peer_id
    /\ peer_id_to_ip = w.peer_id_to_ip
    /\ attrs_peer_id_to_ip = w.attrs_peer_id_to_ip
    /\ peer_presence = w.peer_presence
    /\ subscriptions = w.subscriptions
    /\ seeding_state = w.seeding_state
    /\ contract_states = w.contract_states
    /\ contract_propagation = w.contract_propagation
    /\ peer_lifecycle = w.peer_lifecycle
    /\ pending_ops = w.pending_ops

\* no file (the path does not exist, no file is open)
NoFile == 0

\* the tailer before its first step, and no log file yet
TailIdle ==
    /\ log_files = [path |-> NoFile, files |-> <<>>]
    /\ tailer = [pc |-> "exists", current_inode |-> NoFile, handle |-> NoFile, offset |-> 0]
    /\ handed = <<>>

\* op_stats at start-up (lines 455-460), the put latencies aside
NoOpStats ==
    [put |-> [requests |-> 0, successes |-> 0],
     get |-> [requests |-> 0, successes |-> 0, not_found |-> 0, latencies |-> <<>>],
     update |-> [requests |-> 0, successes |-> 0, broadcasts |-> 0, latencies |-> <<>>],
     subscribe |-> [requests |-> 0, successes |-> 0]]

\* the history buffer and the transaction log at start-up
LogsEmpty ==
    /\ event_history = <<>>
    /\ transactions = <<>>
    /\ transaction_order = <<>>
    /\ latencies = <<>>
    /\ percentiles = None
    /\ op_stats = NoOpStats
    /\ TailIdle
    /\ network_state = None

\* the indexes at start-up
IndexesEmpty ==
    /\ NetIs(EmptyWorld)
    /\ associated = [ip \in PublicIPs \cup {PrivateIP} |-> {}]
    /\ records = 0
    /\ last_event = None
    /\ offered = <<>>

NetEmpty == IndexesEmpty /\ LogsEmpty

\* the first record of the peer at PeerIP
KnownPeerRecord ==
    [Record("peer_startup", "P", 0) EXCEPT !.this_peer = PeerStr("P", PeerIP, 1)]

\* the indexes after the first record of the peer at PeerIP
KnownPeerWorld == RecordEffect(EmptyWorld, KnownPeerRecord)

\* every live session is past its setup, inside the message loop of
\* handle_client (line 1941)
InLoop(live) == [h \in Handlers |-> IF h \in live THEN "loop" ELSE "none"]

AdmIdle ==
    /\ session = InLoop(clients)
    /\ crowd_general = 0
    /\ crowd_priority = 0
    /\ client_priority = <<>>
    /\ client_real_ips = <<>>
    /\ merit = [c \in Conns |-> FALSE]
    /\ last_admit = [code |-> 0, merit |-> FALSE]

NetIdle == NetEmpty

\* no session has an address or a name, and the clock reads t
NameIdleAt(t) ==
    /\ now = t
    /\ client_ip = [h \in Handlers |-> ""]
    /\ peer_names = <<>>
    /\ name_change_timestamps = <<>>
    /\ naming = [h \in Handlers |-> NotNaming]
    /\ accepted = <<>>

NameIdle == NameIdleAt(0)

FanIdle ==
    /\ clients = {}
    /\ queue = [h \in Handlers |-> <<>>]
    /\ dropped_count = [h \in Handlers |-> 0]
    /\ closed = [h \in Handlers |-> FALSE]
    /\ sender = [h \in Handlers |-> "none"]
    /\ inflight = [h \in Handlers |-> NoMsg]
    /\ ws = [h \in Handlers |-> "none"]
    /\ sent = [h \in Handlers |-> <<>>]
    /\ event_buffer = <<>>
    /\ enq_count = 0

(***************************************************************************)
(* SpecAdmit: the admission controller near its limits.  The server is     *)
(* Slack sessions below the general limit, all of them non-priority; new   *)
(* connections shake hands and are admitted or rejected, sessions leave.   *)
(***************************************************************************)
InitAdmit ==
    /\ FanIdle
    /\ NetIs(KnownPeerWorld)
    /\ associated = [ip \in PublicIPs \cup {PrivateIP} |-> BoundIds(KnownPeerWorld, ip)]
    /\ records = 1
    /\ last_event = process_record_event(EmptyWorld, KnownPeerRecord)
    /\ offered = <<>>
    /\ LogsEmpty
    /\ crowd_general = MAX_CLIENTS - PRIORITY_RESERVED - Slack
    /\ crowd_priority = 0
    /\ client_priority = <<>>
    /\ client_real_ips = <<>>
    /\ merit = [c \in Conns |-> FALSE]
    /\ last_admit = [code |-> 0, merit |-> FALSE]
    /\ session = InLoop(clients)
    /\ NameIdle

NextAdmit ==
    \/ \E c \in Conns, q \in Queries, f \in Forwarded : process_request(c, q, f)
    \/ \E c \in Conns : handle_client_admit(c)
    \/ crowd_leave

SpecAdmit == InitAdmit /\ [][NextAdmit]_vars


(***************************************************************************)
(* Claims about admission (SpecAdmit).                                     *)
(***************************************************************************)
\* A step in which handle_client took connection c's entry out of
\* client_priority, that is, ran its admission check for c.
AdmissionStep(c) == c \in DOMAIN client_priority /\ c \notin DOMAIN client_priority'

\* C2: the set of live sessions never has more than MAX_CLIENTS members, and a
\* connection attempt that finds MAX_CLIENTS sessions live is closed with code
\* 1013 and is not added.
C2_TotalCap ==
    /\ [](len_clients <= MAX_CLIENTS)
    /\ [][\A c \in Conns :
            (AdmissionStep(c) /\ len_clients >= MAX_CLIENTS)
            => (last_admit'.code = 1013 /\ len_clients' = len_clients)]_vars

\* C2 witness: the server is full and the latest attempt, although it carried a
\* priority mark, was closed with 1013.
C2_Witness ==
    /\ len_clients = MAX_CLIENTS
    /\ last_admit = [code |-> 1013, merit |-> TRUE]

\* C3: reserved slots. An attempt whose handshake carries no priority mark (no
\* valid token, no forwarded address in the peer index) is never admitted when
\* MAX_CLIENTS - PRIORITY_RESERVED or more sessions are live; an attempt that
\* carries one is admitted whenever fewer than MAX_CLIENTS are live; hence the
\* live sessions without a priority mark never exceed MAX_CLIENTS -
\* PRIORITY_RESERVED.
C3_ReservedSlots ==
    /\ [](crowd_general <= MAX_CLIENTS - PRIORITY_RESERVED)
    /\ [][\A c \in Conns :
            /\ (AdmissionStep(c) /\ ~merit[c]
                   /\ len_clients >= MAX_CLIENTS - PRIORITY_RESERVED)
               => (last_admit'.code = 1013 /\ len_clients' = len_clients)
            /\ (AdmissionStep(c) /\ merit[c] /\ len_clients < MAX_CLIENTS)
               => (last_admit'.code = 0 /\ crowd_priority' = crowd_priority + 1)]_vars

(***************************************************************************)
(* SpecName: two sessions opened from the same address (one self-id hash)  *)
(* send set_peer_name requests while the clock advances.                   *)
(***************************************************************************)
SampleNames == {<<" ", "a", "$">>, <<"$">>, [i \in 1..31 |-> "a"]}

InitName ==
    /\ clients = {"A", "B"}
    /\ queue = [h \in Handlers |-> <<>>]
    /\ dropped_count = [h \in Handlers |-> 0]
    /\ closed = [h \in Handlers |-> FALSE]
    /\ sender = [h \in Handlers |-> "wait"]
    /\ inflight = [h \in Handlers |-> NoMsg]
    /\ ws = [h \in Handlers |-> "open"]
    /\ sent = [h \in Handlers |-> <<>>]
    /\ event_buffer = <<>>
    /\ enq_count = 0
    /\ now = 0
    /\ client_ip = [h \in Handlers |-> OtherIP]
    /\ peer_names = DictPut(<<>>, ip_hash(OtherIP), <<"b", "o", "b">>)
    /\ name_change_timestamps = DictPut(<<>>, ip_hash(OtherIP), [i \in 1..PriorChanges |-> 0])
    /\ naming = [h \in Handlers |-> NotNaming]
    /\ accepted = [i \in 1..PriorChanges |-> <<ip_hash(OtherIP), 0>>]
    /\ AdmIdle /\ NetIdle

NextName ==
    \/ \E h \in Handlers, raw \in SampleNames : set_peer_name(h, raw)
    \/ \E h \in Handlers, llm \in Moderation : set_peer_name_moderated(h, llm)
    \/ clock_advance

SpecName == InitName /\ [][NextName]_vars

\* accepted changes of hash h inside the hour that ends at time at
AcceptedInWindow(h, at) ==
    Len(SelectSeq(accepted, LAMBDA e : e[1] = h /\ e[2] <= at /\ InWindow(e[2], at)))

\* C4: name-change rate limit. For every self-id hash and every rolling hour
\* (every hour that ends at the time of some accepted change or now) at most
\* NAME_CHANGE_LIMIT set_peer_name requests were accepted.
C4_RateLimit ==
    \A i \in 1..Len(accepted) :
        AcceptedInWindow(accepted[i][1], accepted[i][2]) <= NAME_CHANGE_LIMIT

\* a sanitize_name result is (name, None) or (None, reason)
AcceptedOrRejected(res) ==
    \/ ~res.none_name /\ res.none_reason
    \/ res.none_name /\ ~res.none_reason

\* C20: the shape of sanitize_name's result. For every name handed to it,
\* sanitize_name returns (name, None) or (None, reason), never a name together
\* with a reason: for names longer than 30 characters, names the filter
\* empties and every answer of the classifier.
C20_SanitizeShape ==
    [][/\ \A h \in Handlers, raw \in SampleNames :
            (/\ ip_hash(client_ip[h]) # "" /\ strip(raw) # <<>>
             /\ rate_limit_allowed(ip_hash(client_ip[h]))
             /\ ~Suspends(strip(raw))
             /\ set_peer_name(h, raw))
            => AcceptedOrRejected(sanitize_name(strip(raw), "off"))
       /\ \A h \in Handlers, llm \in Moderation :
            set_peer_name_moderated(h, llm)
            => AcceptedOrRejected(sanitize_name(naming[h].name, llm))]_vars

\* what handle_client does with the sanitize_name result res of session h:
\* without a rejection reason the name is written, the change recorded and
\* peer_name_update put on every session's queue; with one, nothing but the
\* refusal sent to h
NameOutcome(h, res) ==
    LET hash == ip_hash(client_ip[h]) IN
    IF res.none_reason
    THEN /\ hash \in DOMAIN peer_names'
         /\ peer_names'[hash] = res.name
         /\ accepted' = Append(accepted, <<hash, now>>)
         /\ \A c \in clients :
               /\ queue'[c] # queue[c]
               /\ queue'[c][Len(queue'[c])] = NameUpdate(hash, res.name)
    ELSE /\ peer_names' = peer_names
         /\ accepted' = accepted
         /\ queue' = queue
         /\ sent'[h] # sent[h]
         /\ sent'[h][Len(sent'[h])].type = "name_set_result"
         /\ ~sent'[h][Len(sent'[h])].success

\* C21: on a set_peer_name request that passed the rate limit, the name map
\* is written, a rate-limit tick is recorded and peer_name_update is enqueued
\* to every live session if and only if the moderator returned no rejection
\* reason; with a rejection reason the name map, the rate-limit record and
\* the sessions' queues are unchanged and the origin receives name_set_result
\* with success false.
C21_AcceptIffNoReason ==
    [][/\ \A h \in Handlers, raw \in SampleNames :
            (/\ ip_hash(client_ip[h]) # "" /\ strip(raw) # <<>>
             /\ rate_limit_allowed(ip_hash(client_ip[h]))
             /\ ~Suspends(strip(raw))
             /\ set_peer_name(h, raw))
            => NameOutcome(h, sanitize_name(strip(raw), "off"))
       /\ \A h \in Handlers, llm \in Moderation :
            set_peer_name_moderated(h, llm)
            => NameOutcome(h, sanitize_name(naming[h].name, llm))]_vars

LocOf(ip) == IF ip = PeerIP THEN 1 ELSE 2

OtherId(pid) == IF pid = "P" THEN "Q" ELSE "P"

ConnectRecords(ts) ==
    {[Record("connect", pid, ts) EXCEPT
         !.this_peer = PeerStr(pid, a, LocOf(a)),
         !.connected_peer = PeerStr(OtherId(pid), b, LocOf(b))] :
     pid \in PeerIds, a \in PublicIPs, b \in PublicIPs \cup {PrivateIP}}

DisconnectRecords(ts) ==
    {[Record("disconnect", "P", ts) EXCEPT
         !.this_peer = PeerStr("P", a, LocOf(a)),
         !.from_peer_addr = b] :
     a \in PublicIPs, b \in PublicIPs}

LifecycleRecords(ts) == {Record("peer_startup", pid, ts) : pid \in PeerIds}

LoopbackIP == "127.0.0.1"

\* connect records reported by a peer on a private address, naming a loopback
\* or a public peer
PrivateRecords(ts) ==
    {[Record("connect", "P", ts) EXCEPT
         !.this_peer = PeerStr("P", PrivateIP, 1),
         !.connected_peer = PeerStr("Q", b, 2)] :
     b \in {LoopbackIP, PeerIP}}

\* a record without the peer_id attribute, whose this_peer string alone
\* carries the identity
UnattributedRecords(ts) ==
    {[Record("put_success", "", ts) EXCEPT
         !.key = ContractKey, !.state_hash = "h2",
         !.this_peer = PeerStr("Q", PeerIP, LocOf(PeerIP))]}

ContractRecords(ts) ==
    {[Record("update_success", "P", ts) EXCEPT !.key = ContractKey, !.state_hash_after = "h1"],
     [Record("seeding_started", "P", ts) EXCEPT !.key = ContractKey],
     [Record("subscribed", "Q", ts) EXCEPT
         !.key = ContractKey, !.this_peer = PeerStr("Q", OtherIP, LocOf(OtherIP))],
     [Record("update_broadcast_emitted", "Q", ts) EXCEPT
         !.key = ContractKey, !.state_hash = "h1",
         !.sender = PeerStr("Q", OtherIP, LocOf(OtherIP)),
         !.broadcast_to = <<PeerStr("P", PeerIP, LocOf(PeerIP)), Malformed>>],
     [Record("put_request", "P", ts) EXCEPT !.id = "tx1", !.key = ContractKey]}

\* the records of the model, yet to be stamped
SampleRecords ==
    ConnectRecords(0) \cup DisconnectRecords(0) \cup LifecycleRecords(0) \cup ContractRecords(0)
        \cup PrivateRecords(0) \cup UnattributedRecords(0)

InitNet ==
    /\ clients = {"A"}
    /\ queue = [h \in Handlers |-> <<>>]
    /\ dropped_count = [h \in Handlers |-> 0]
    /\ closed = [h \in Handlers |-> FALSE]
    /\ sender = [h \in Handlers |-> IF h = "A" THEN "wait" ELSE "done"]
    /\ inflight = [h \in Handlers |-> NoMsg]
    /\ ws = [h \in Handlers |-> IF h = "A" THEN "open" ELSE "closed"]
    /\ sent = [h \in Handlers |-> <<>>]
    /\ event_buffer = <<>>
    /\ enq_count = 0
    /\ AdmIdle /\ NameIdle /\ NetEmpty

NextNet ==
    \/ \E rec \in SampleRecords : process_record(rec)
    \/ periodic_cleanup
    \/ clock_advance

SpecNet == InitNet /\ [][NextNet]_vars

\* the address ip and the identities pids appear nowhere in the indexes w
AbsentIn(w, ip, pids) ==
    /\ ip \notin DOMAIN w.peers
    /\ ip \notin DOMAIN w.peer_presence
    /\ \A conn \in w.connections : ip \notin conn
    /\ \A q \in DOMAIN w.peers : ip \notin w.peers[q].connections
    /\ ip \notin DOMAIN w.ip_to_peer_id
    /\ \A pid \in DOMAIN w.peer_id_to_ip : w.peer_id_to_ip[pid] # ip
    /\ \A pid \in DOMAIN w.attrs_peer_id_to_ip : w.attrs_peer_id_to_ip[pid] # ip
    /\ \A k \in DOMAIN w.subscriptions :
          /\ anonymize_ip(ip) \notin w.subscriptions[k].subscribers
          /\ anonymize_ip(ip) \notin DOMAIN w.subscriptions[k].tree
          /\ \A s \in DOMAIN w.subscriptions[k].tree :
                anonymize_ip(ip) \notin w.subscriptions[k].tree[s]
    /\ \A pid \in pids :
          /\ pid \notin DOMAIN w.peer_lifecycle
          /\ pid \notin DOMAIN w.peer_id_to_ip
          /\ pid \notin DOMAIN w.attrs_peer_id_to_ip
          /\ \A q \in DOMAIN w.ip_to_peer_id : w.ip_to_peer_id[q] # pid
          /\ \A k \in DOMAIN w.seeding_state : pid \notin DOMAIN w.seeding_state[k]
          /\ \A k \in DOMAIN w.contract_states : pid \notin DOMAIN w.contract_states[k]
          /\ \A k \in DOMAIN w.contract_propagation :
                pid \notin DOMAIN w.contract_propagation[k].peers

\* C7: the sweep removes stale peers everywhere. After cleanup_stale_peers no
\* peer that was stale at the start of the sweep appears in any index, by its
\* IP, by its anonymous id or by an identity ever associated with its IP.
C7_SweepRemovesStale ==
    [][periodic_cleanup =>
         \A ip \in stale_ips_of(World, now) : AbsentIn(World', ip, associated[ip])]_vars

\* the message a sweep owes the sessions: the anonymous ids of the peers that
\* left the index, the identities bound to them and the edges that left the
\* connection set
OwedPeersRemoved(w, v) ==
    [type |-> "peers_removed",
     peers |-> {anonymize_ip(ip) : ip \in DOMAIN w.peers \ DOMAIN v.peers},
     peer_ids |-> UNION {BoundIds(w, ip) : ip \in DOMAIN w.peers \ DOMAIN v.peers},
     connections |-> {{anonymize_ip(ip) : ip \in conn} : conn \in w.connections \ v.connections}]

\* C8: one peers_removed per sweep. A sweep that removes a stale peer while
\* sessions are connected enqueues to every session exactly one peers_removed
\* message listing exactly the removed anonymous ids, the identities bound to
\* them and the removed edges; a sweep that removes nothing enqueues nothing.
C8_PeersRemoved ==
    [][periodic_cleanup =>
         IF DOMAIN peers' # DOMAIN peers
         THEN \A h \in clients : queue'[h] = Append(queue[h], OwedPeersRemoved(World, World'))
         ELSE queue' = queue]_vars

\* the sweep from w to v left the live peer ip and its records untouched
UntouchedBy(w, v, ip, stale_ips) ==
    /\ ip \in DOMAIN v.peers
    /\ [v.peers[ip] EXCEPT !.connections = {}] = [w.peers[ip] EXCEPT !.connections = {}]
    /\ w.peers[ip].connections \ stale_ips \subseteq v.peers[ip].connections
    /\ v.peers[ip].connections \subseteq w.peers[ip].connections
    /\ ip \in DOMAIN w.ip_to_peer_id =>
          ip \in DOMAIN v.ip_to_peer_id /\ v.ip_to_peer_id[ip] = w.ip_to_peer_id[ip]
    /\ \A pid \in DOMAIN w.peer_id_to_ip : w.peer_id_to_ip[pid] = ip =>
          pid \in DOMAIN v.peer_id_to_ip /\ v.peer_id_to_ip[pid] = ip
    /\ \A pid \in DOMAIN w.attrs_peer_id_to_ip : w.attrs_peer_id_to_ip[pid] = ip =>
          pid \in DOMAIN v.attrs_peer_id_to_ip /\ v.attrs_peer_id_to_ip[pid] = ip
    /\ ip \in DOMAIN w.peer_presence =>
          ip \in DOMAIN v.peer_presence /\ v.peer_presence[ip] = w.peer_presence[ip]
    /\ \A pid \in BoundIds(w, ip) :
          /\ pid \in DOMAIN w.peer_lifecycle =>
                pid \in DOMAIN v.peer_lifecycle /\ v.peer_lifecycle[pid] = w.peer_lifecycle[pid]
          /\ \A k \in DOMAIN w.seeding_state : pid \in DOMAIN w.seeding_state[k] =>
                /\ k \in DOMAIN v.seeding_state /\ pid \in DOMAIN v.seeding_state[k]
                /\ v.seeding_state[k][pid] = w.seeding_state[k][pid]
          /\ \A k \in DOMAIN w.contract_states : pid \in DOMAIN w.contract_states[k] =>
                /\ k \in DOMAIN v.contract_states /\ pid \in DOMAIN v.contract_states[k]
                /\ v.contract_states[k][pid] = w.contract_states[k][pid]

\* C9: the sweep leaves live peers untouched. cleanup_stale_peers changes no
\* record of a peer that is not stale (stale IPs leaving its neighbor set
\* apart), also when a stale IP and a live IP share a telemetry identity.
C9_SweepFrame ==
    [][periodic_cleanup =>
         \A ip \in DOMAIN peers \ stale_ips_of(World, now) :
             UntouchedBy(World, World', ip, stale_ips_of(World, now))]_vars

\* C10: neighbor symmetry. For every peer p of the index and every q in p's
\* neighbor set, q is in the index and p is in q's neighbor set.
C10_NeighborSymmetry ==
    \A p \in DOMAIN peers : \A q \in peers[p].connections :
        q \in DOMAIN peers /\ p \in peers[q].connections

\* A sweep has removed a stale peer and its edge to a live peer (the session
\* holds the report), and live peers are neighbors of each other again.
C10_Witness ==
    /\ \E i \in 1..Len(queue["A"]) :
          queue["A"][i].type = "peers_removed" /\ queue["A"][i].connections # {}
    /\ \E p \in DOMAIN peers : \E q \in peers[p].connections : q # p
    /\ records = MaxRecords

\* C11: edges join known peers. After every process_record call and every
\* sweep, both endpoints of every edge of the connection set are keys of the
\* peer index.
C11_EdgeEndpointsKnown == \A conn \in connections : conn \subseteq DOMAIN peers

\* C11 witness: a sweep has removed a stale peer together with its edge, and
\* an edge between two distinct peers is in the connection set.
C11_Witness ==
    /\ \E i \in 1..Len(queue["A"]) :
          queue["A"][i].type = "peers_removed" /\ queue["A"][i].peers # {}
    /\ \E conn \in connections : Cardinality(conn) = 2

\* the records whose two peers are both on non-public addresses
\* the addresses of the records that carry a private prefix (10. and 127.)
PrivateAddresses == {PrivateIP, LoopbackIP}

BothPrivateRecords ==
    {rec \in SampleRecords :
        /\ rec.event_type = "connect"
        /\ parse_peer_string(rec.this_peer).ip \in PrivateAddresses
        /\ parse_peer_string(rec.connected_peer).ip \in PrivateAddresses}

\* C12: private addresses are filtered. No non-public IP is ever a key of the
\* peer index, a member of an edge or a member of a neighbor set; a connect
\* record whose this_peer and connected_peer are both private adds no peer, no
\* connection and yields no outbound event.
C12_PrivateFiltered ==
    /\ [](/\ \A ip \in DOMAIN peers : ip \notin PrivateAddresses
          /\ \A conn \in connections : \A ip \in conn : ip \notin PrivateAddresses
          /\ \A p \in DOMAIN peers : \A q \in peers[p].connections : q \notin PrivateAddresses)
    /\ [][\A rec \in BothPrivateRecords :
            process_record(rec) =>
                /\ DOMAIN peers' = DOMAIN peers
                /\ connections' = connections
                /\ last_event' = None]_vars

\* C12 witness: a peer on a private address has reported a connection to a
\* public peer; the event names the public peer only and the public peer is
\* the only peer of the index.
C12_Witness ==
    /\ last_event.type = "event"
    /\ last_event.from_peer = Absent
    /\ last_event.to_peer = anonymize_ip(PeerIP)
    /\ DOMAIN peers = {PeerIP}

\* C14: pending operations expire. In every reachable state every entry of
\* pending_ops is younger than 5 minutes.
C14_PendingOpsYoung ==
    \A tx \in DOMAIN pending_ops : now - pending_ops[tx].start_ns < STALE_PENDING_OP_NS

\* C17: restart with a new identity. When a record reports for a known IP an
\* identity NEW that differs from the identity OLD recorded for that IP (and
\* names OLD nowhere else), then after the record no seeding or contract-state
\* entry is keyed on OLD, the two maps bind the IP and NEW to each other and
\* OLD is absent from peer_id_to_ip; NEW is the peer_id attribute or, without
\* one, the identity of the this_peer string.
C17_RestartPurgesOld ==
    [][\A rec \in SampleRecords :
         LET ip == parse_peer_string(rec.this_peer).ip
             new == reporting_peer(rec)
             other == other_peer(rec)
             old == ip_to_peer_id[ip]
         IN  (/\ ip \in DOMAIN peers /\ ip \in DOMAIN ip_to_peer_id
              /\ new # "" /\ old # new
              /\ other.ip # ip /\ other.peer_id # old
              /\ process_record(rec))
             => /\ \A k \in DOMAIN seeding_state' : old \notin DOMAIN seeding_state'[k]
                /\ \A k \in DOMAIN contract_states' : old \notin DOMAIN contract_states'[k]
                /\ ip \in DOMAIN ip_to_peer_id' /\ ip_to_peer_id'[ip] = new
                /\ new \in DOMAIN peer_id_to_ip' /\ peer_id_to_ip'[new] = ip
                /\ old \notin DOMAIN peer_id_to_ip']_vars

(***************************************************************************)
(* SpecReplay: the tailer replays a log whose records carry timestamps in  *)
(* any order: contract updates of two identities, and a restart of the     *)
(* peer at PeerIP under the other identity.                                *)
(***************************************************************************)
Stamps == 0..MaxStamp

ReplayRecords ==
    {[Record("put_success", "P", 0) EXCEPT
         !.key = ContractKey, !.state_hash = "h1",
         !.this_peer = PeerStr("P", PeerIP, LocOf(PeerIP))],
     [Record("update_success", "P", 0) EXCEPT
         !.key = ContractKey, !.state_hash_after = "h2"],
     [Record("update_broadcast_emitted", "Q", 0) EXCEPT
         !.key = ContractKey, !.state_hash = "h2"],
     [Record("put_success", "P", 0) EXCEPT !.key = ContractKey],
     [Record("connect", "Q", 0) EXCEPT
         !.this_peer = PeerStr("Q", PeerIP, LocOf(PeerIP)),
         !.connected_peer = PeerStr("P", OtherIP, LocOf(OtherIP))]}

InitReplay == InitNet

NextReplay == \E rec \in ReplayRecords, ts \in Stamps : replay_record(rec, ts)

SpecReplay == InitReplay /\ [][NextReplay]_vars

\* the identity pid is in no index keyed by (contract, peer identity) of w
InNoContractIndex(w, pid) ==
    /\ \A k \in DOMAIN w.seeding_state : pid \notin DOMAIN w.seeding_state[k]
    /\ \A k \in DOMAIN w.contract_states : pid \notin DOMAIN w.contract_states[k]
    /\ \A k \in DOMAIN w.contract_propagation :
          pid \notin DOMAIN w.contract_propagation[k].peers

\* C24: cleanup_stale_peer_id(old) removes old from seeding_state,
\* contract_states and the peer lists of contract_propagation, so that no such
\* index has an entry for old afterwards, and leaves peers and connections
\* (the neighbor sets are in peers) unchanged. It is stated of the record of
\* a restart, which calls it: of the function on the world the record finds
\* and of the world the record leaves.
C24_CleanupPurgesEveryIndex ==
    [][\A rec \in ReplayRecords, ts \in Stamps :
         LET ip == parse_peer_string(rec.this_peer).ip
             new == rec.peer_id
             old == ip_to_peer_id[ip]
             w == cleanup_stale_peer_id(World, old)
         IN  (/\ ip \in DOMAIN peers /\ ip \in DOMAIN ip_to_peer_id
              /\ new # "" /\ old # new
              /\ replay_record(rec, ts))
             => /\ InNoContractIndex(w, old)
                /\ w.peers = peers
                /\ w.connections = connections
                /\ InNoContractIndex(World', old)]_vars

\* C13: the newest update wins. The timestamp of every contract-state record
\* is the maximum of the timestamps offered to update_contract_state for its
\* (contract, peer) pair since the record was created; an update whose
\* timestamp is at most the stored one changes neither the hash, the event
\* kind nor the propagation timeline.
C13_NewestWins ==
    /\ [](\A kp \in Pairs(contract_states) :
            contract_states[kp[1]][kp[2]].timestamp = offered[kp])
    /\ [][\A rec \in ReplayRecords, ts \in Stamps :
            LET u == offered_update(rec)
                byPeer == DictGet(contract_states, u.key, <<>>)
            IN  (/\ u # NoUpdate
                 /\ u.peer_id \in DOMAIN byPeer
                 /\ ts <= byPeer[u.peer_id].timestamp
                 /\ replay_record(rec, ts))
                => /\ <<u.key, u.peer_id>> \in Pairs(contract_states') =>
                         contract_states'[u.key][u.peer_id] = byPeer[u.peer_id]
                   /\ contract_propagation' = contract_propagation]_vars

\* C13 witness: the record of (K, P) holds the hash and the timestamp of a
\* later update, and the record processed last was an older put_success of P
\* for K with another hash.
C13_Witness ==
    /\ ContractKey \in DOMAIN contract_states
    /\ "P" \in DOMAIN contract_states[ContractKey]
    /\ contract_states[ContractKey]["P"].hash = "h2"
    /\ contract_states[ContractKey]["P"].timestamp = MaxStamp
    /\ last_event.type = "event"
    /\ last_event.event_type = "put_success"
    /\ last_event.contract_full = ContractKey
    /\ last_event.timestamp < MaxStamp

(***************************************************************************)
(* The event history buffer (lines 176-184, 549-554, 1365-1371, 1675-1681).*)
(* An entry is an outbound event; only its timestamp matters here.         *)
(***************************************************************************)
\* 2 hours, in milliseconds
MAX_HISTORY_AGE_NS == 2 * 60 * 60 * 1000

HistoryEvent(ts) == [type |-> "event", timestamp |-> ts]

\* deque(maxlen=MAX_HISTORY_EVENTS).append
deque_append(h, event) ==
    IF Len(h) >= MAX_HISTORY_EVENTS THEN Append(Tail(h), event) ELSE Append(h, event)

RECURSIVE popleft_old(_, _)
\* while event_history and event_history[0]["timestamp"] < cutoff: popleft()
popleft_old(h, cutoff) ==
    IF h # <<>> /\ Head(h).timestamp < cutoff THEN popleft_old(Tail(h), cutoff) ELSE h

\* prune_old_events (lines 549-554)
prune_old_events(h, now_ns) == popleft_old(h, now_ns - MAX_HISTORY_AGE_NS)

\* the buffer after process_record stored an event (lines 1367-1371)
history_after(h, event, now_ns) ==
    LET appended == deque_append(h, event)
    IN  IF Len(appended) % PRUNE_INTERVAL = 0
        THEN prune_old_events(appended, now_ns)
        ELSE appended

\* the clock of SpecHistory, and the timestamps its records carry: three hours
\* old, one hour old, current
HistoryEpoch == 3 * 60 * 60 * 1000

HistoryStamps == {0, 2 * 60 * 60 * 1000, HistoryEpoch}

\* process_record stores the event of a record that carries the timestamp ts
store_history(ts) ==
    /\ Len(event_history) < PRUNE_INTERVAL - HistoryRoom + MaxStore
    /\ event_history' = history_after(event_history, HistoryEvent(ts), now)
    /\ UNCHANGED <<peers, connections, ip_to_peer_id, peer_id_to_ip, attrs_peer_id_to_ip,
                   peer_presence, subscriptions, seeding_state, contract_states,
                   contract_propagation, peer_lifecycle, pending_ops, associated, records,
                   last_event, offered, transactions, transaction_order, latencies,
                   percentiles, op_stats, tailVars>>
    /\ UNCHANGED <<network_state, fanVars, admVars, nameVars>>

\* get_history (lines 1675-1681) prunes before it reads the buffer
get_history ==
    /\ event_history' = prune_old_events(event_history, now)
    /\ UNCHANGED <<peers, connections, ip_to_peer_id, peer_id_to_ip, attrs_peer_id_to_ip,
                   peer_presence, subscriptions, seeding_state, contract_states,
                   contract_propagation, peer_lifecycle, pending_ops, associated, records,
                   last_event, offered, transactions, transaction_order, latencies,
                   percentiles, op_stats, tailVars>>
    /\ UNCHANGED <<network_state, fanVars, admVars, nameVars>>

(***************************************************************************)
(* tail_log (lines 1795-1842).  The log is written by another process: a   *)
(* step of the writer may fall between any two system calls of the         *)
(* tailer.  A file is known by its inode; a line is a whole line, either   *)
(* text that is not JSON or the log records of its envelope; a record is   *)
(* known by what process_record does with it: return a realtime event,     *)
(* return nothing, return a transfer event, or raise.                      *)
(***************************************************************************)
MaxFiles == 2

MaxLines == 2

\* a line that orjson.loads rejects
Garbage == <<"garbage">>

LogLines ==
    {<<"quiet", "event">>, <<"raises", "event">>, <<"transfer", "event">>, Garbage}

\* the number of lines written so far
RECURSIVE LinesIn(_)
LinesIn(files) ==
    IF files = <<>> THEN 0 ELSE Len(files[1]) + LinesIn(Tail(files))

\* what neither the tailer nor the writer of the log touches
tailFrame ==
    <<peers, connections, ip_to_peer_id, peer_id_to_ip, attrs_peer_id_to_ip,
      peer_presence, subscriptions, seeding_state, contract_states,
      contract_propagation, peer_lifecycle, pending_ops, associated, records,
      last_event, offered, event_history, transactions, transaction_order,
      latencies, percentiles, op_stats, network_state, admVars, nameVars>>

\* the tailer has a file open and follows it
Following == tailer.pc \in {"check", "read"}

\* the writer appends a whole line to the file at the path
log_append(line) ==
    /\ log_files.path # NoFile
    /\ LinesIn(log_files.files) < MaxLines
    /\ log_files' = [log_files EXCEPT !.files[log_files.path] =
                        Append(@, [records |-> line,
                                   live |-> Following /\ tailer.handle = log_files.path])]
    /\ UNCHANGED <<tailer, handed, fanVars, tailFrame>>

\* the file at the path is removed or renamed away
log_remove ==
    /\ log_files.path # NoFile
    /\ log_files' = [log_files EXCEPT !.path = NoFile]
    /\ UNCHANGED <<tailer, handed, fanVars, tailFrame>>

\* a new, empty file is created at the path, in place of the one there if any
log_create ==
    /\ Len(log_files.files) < MaxFiles
    /\ log_files' = [path |-> Len(log_files.files) + 1,
                     files |-> Append(log_files.files, <<>>)]
    /\ UNCHANGED <<tailer, handed, fanVars, tailFrame>>

\* lines 1803-1805: while not TELEMETRY_LOG.exists(): await asyncio.sleep(1)
tail_log_exists ==
    /\ tailer.pc = "exists"
    /\ tailer' = IF log_files.path = NoFile THEN tailer ELSE [tailer EXCEPT !.pc = "stat"]
    /\ UNCHANGED <<log_files, handed, fanVars, tailFrame>>

\* line 1808: os.stat outside any try; FileNotFoundError ends tail_log
tail_log_stat ==
    /\ tailer.pc = "stat"
    /\ tailer' = IF log_files.path = NoFile
                 THEN [tailer EXCEPT !.pc = "raised"]
                 ELSE [tailer EXCEPT !.pc = "open", !.current_inode = log_files.path]
    /\ UNCHANGED <<log_files, handed, fanVars, tailFrame>>

\* lines 1812-1813: open and seek to the end; FileNotFoundError ends tail_log
tail_log_open ==
    /\ tailer.pc = "open"
    /\ tailer' = IF log_files.path = NoFile
                 THEN [tailer EXCEPT !.pc = "raised"]
                 ELSE [tailer EXCEPT !.pc = "check", !.handle = log_files.path,
                                     !.offset = Len(log_files.files[log_files.path])]
    /\ UNCHANGED <<log_files, handed, fanVars, tailFrame>>

\* lines 1817-1824: the rotation check; on a break the file is closed and the
\* outer loop starts again
tail_log_check ==
    /\ tailer.pc = "check"
    /\ tailer' = IF log_files.path = NoFile \/ log_files.path # tailer.current_inode
                 THEN [tailer EXCEPT !.pc = "exists", !.handle = NoFile]
                 ELSE [tailer EXCEPT !.pc = "read"]
    /\ UNCHANGED <<log_files, handed, fanVars, tailFrame>>

\* the records of a line that reach process_record (lines 1832-1841): all of
\* them, or those up to the first one that raises or whose event has no
\* "event_type" key (the transfer event of lines 989-1006)
reach_process_record(log_records) ==
    LET stops == {i \in 1..Len(log_records) : log_records[i] \in {"raises", "transfer"}}
    IN  IF stops = {} THEN log_records
        ELSE SubSeq(log_records, 1, CHOOSE i \in stops : \A j \in stops : i <= j)

\* lines 1826-1841: readline, and the records of a line that parses
tail_log_read ==
    /\ tailer.pc = "read"
    /\ LET file == log_files.files[tailer.handle]
           line == file[tailer.offset + 1].records
           reached == IF line = Garbage THEN <<>> ELSE reach_process_record(line)
           events == SelectSeq(reached, LAMBDA r : r = "event")
       IN  IF tailer.offset >= Len(file)
           THEN /\ tailer' = [tailer EXCEPT !.pc = "check"]
                /\ UNCHANGED <<handed, event_buffer, enq_count>>
           ELSE /\ tailer' = [tailer EXCEPT !.pc = "check", !.offset = @ + 1]
                /\ handed' = handed \o
                      [i \in 1..Len(reached) |->
                          [inode |-> tailer.handle, line |-> tailer.offset + 1,
                           record |-> i, kind |-> reached[i]]]
                /\ event_buffer' = event_buffer \o
                      [i \in 1..Len(events) |-> Event(enq_count + i)]
                /\ enq_count' = enq_count + Len(events)
    /\ UNCHANGED <<log_files, tailFrame>>
    /\ UNCHANGED <<clients, queue, dropped_count, closed, sender, inflight, ws, sent>>

\* a step of the tailer
tail_log ==
    \/ tail_log_exists
    \/ tail_log_stat
    \/ tail_log_open
    \/ tail_log_check
    \/ tail_log_read

(***************************************************************************)
(* SpecTail: the log file exists and the tailer starts; the writer appends *)
(* lines, removes the file and creates new ones.  The event loop resumes   *)
(* the tailer after every sleep, so its steps are weakly fair.             *)
(***************************************************************************)
InitTail ==
    /\ FanIdle /\ AdmIdle /\ NameIdle /\ IndexesEmpty
    /\ event_history = <<>>
    /\ transactions = <<>>
    /\ transaction_order = <<>>
    /\ latencies = <<>>
    /\ percentiles = None
    /\ op_stats = NoOpStats
    /\ network_state = None
    /\ log_files = [path |-> 1, files |-> << <<>> >>]
    /\ tailer = [pc |-> "exists", current_inode |-> NoFile, handle |-> NoFile, offset |-> 0]
    /\ handed = <<>>

NextTail ==
    \/ tail_log_exists
    \/ tail_log_stat
    \/ tail_log_open
    \/ tail_log_check
    \/ tail_log_read
    \/ \E line \in LogLines : log_append(line)
    \/ log_remove
    \/ log_create

SpecTail == InitTail /\ [][NextTail]_vars /\ WF_vars(tail_log)

\* the entries of handed that come from line number line of the file inode
HandedOf(h, inode, line) ==
    SelectSeq(h, LAMBDA e : e.inode = inode /\ e.line = line)

\* C29: record hand-off. Every log record of a line that parses as an envelope
\* is handed to process_record exactly once and in order, whether or not a
\* record of the line is malformed, raises, or yields an event of any shape
\* such as a transfer event; and a line is read whatever the lines before it
\* held.
C29_EveryRecordHandedOnce ==
    [][(tailer.pc = "read" /\ tailer.offset < Len(log_files.files[tailer.handle])
          /\ tail_log_read)
       => LET line == log_files.files[tailer.handle][tailer.offset + 1].records
              mine == HandedOf(handed', tailer.handle, tailer.offset + 1)
          IN  /\ HandedOf(handed, tailer.handle, tailer.offset + 1) = <<>>
              /\ line # Garbage =>
                    /\ Len(mine) = Len(line)
                    /\ \A i \in 1..Len(line) : mine[i].record = i /\ mine[i].kind = line[i]
              /\ tailer'.pc = "check" /\ tailer'.offset = tailer.offset + 1]_vars

\* C30: log rotation liveness. When the file open in the tailer is no longer
\* the file at the path, the tailer eventually has the file at the path open,
\* or there is none; every line that parses and was appended to the file the
\* tailer follows is eventually handed to process_record; and the tailer
\* never terminates.
C30_RotationLiveness ==
    /\ [](tailer.pc # "raised")
    /\ (Following /\ tailer.handle # log_files.path)
          ~> (log_files.path = NoFile \/ (Following /\ tailer.handle = log_files.path))
    /\ \A inode \in 1..MaxFiles, n \in 1..MaxLines :
          (/\ inode <= Len(log_files.files)
           /\ n <= Len(log_files.files[inode])
           /\ log_files.files[inode][n].live
           /\ log_files.files[inode][n].records # Garbage)
             ~> (HandedOf(handed, inode, n) # <<>>)

(***************************************************************************)
(* SpecPropagation: the tailer replays update records of two identities    *)
(* for one contract, carrying two hashes and timestamps on both sides of   *)
(* the propagation window.                                                 *)
(***************************************************************************)
WindowStamps == {0, 1, PROPAGATION_WINDOW_NS, PROPAGATION_WINDOW_NS + 1}

UpdateRecords ==
    {[Record("update_broadcast_applied", "P", 0) EXCEPT
         !.key = ContractKey, !.state_hash = "h1", !.state_hash_after = "h2"],
     [Record("update_broadcast_received", "P", 0) EXCEPT
         !.key = ContractKey, !.state_hash = "h1"],
     [Record("update_success", "Q", 0) EXCEPT
         !.key = ContractKey, !.state_hash_after = "h2"],
     [Record("update_broadcast_applied", "Q", 0) EXCEPT
         !.key = ContractKey, !.state_hash = "h2", !.state_hash_after = "h1"]}

InitPropagation == InitNet

NextPropagation == \E rec \in UpdateRecords, ts \in WindowStamps : replay_record(rec, ts)

SpecPropagation == InitPropagation /\ [][NextPropagation]_vars

\* C25: update_broadcast_applied takes precedence over
\* update_broadcast_received. When the record of a (contract, peer) pair was
\* written by update_broadcast_applied, an update_broadcast_received for the
\* pair, whatever its timestamp, leaves the recorded hash as it is.
C25_AppliedTakesPrecedence ==
    [][\A rec \in UpdateRecords, ts \in WindowStamps :
         LET u == offered_update(rec)
             byPeer == DictGet(contract_states, u.key, <<>>)
         IN  (/\ rec.event_type = "update_broadcast_received"
              /\ u.peer_id \in DOMAIN byPeer
              /\ byPeer[u.peer_id].event_type = "update_broadcast_applied"
              /\ replay_record(rec, ts))
             => /\ <<u.key, u.peer_id>> \in Pairs(contract_states')
                /\ contract_states'[u.key][u.peer_id].hash = byPeer[u.peer_id].hash]_vars

\* the event types whose updates are given to update_propagation_tracking
\* (line 385)
PropagationEvents == {"update_success", "update_broadcast_applied", "update_broadcast_emitted"}

\* C26: the propagation window. Every first-seen timestamp recorded for a peer
\* of the current hash is at most 5 minutes after the hash's first_seen, and
\* is kept as long as the hash stays current; an observation of the current
\* hash stamped more than 5 minutes after first_seen changes neither the peer
\* list nor last_seen; an observation of another hash given to
\* update_propagation_tracking archives the current hash as previous and
\* starts a window that holds the reporting peer only.
C26_PropagationWindow ==
    /\ [](\A k \in DOMAIN contract_propagation :
            \A p \in DOMAIN contract_propagation[k].peers :
               contract_propagation[k].peers[p] - contract_propagation[k].first_seen
                   <= 5 * 60 * 1000)
    /\ [][\A rec \in UpdateRecords, ts \in WindowStamps :
            LET u == offered_update(rec)
                prop == contract_propagation[u.key]
                after == contract_propagation'[u.key]
                byPeer == DictGet(contract_states, u.key, <<>>)
                given == /\ rec.event_type \in PropagationEvents
                         /\ u.peer_id \in DOMAIN byPeer => byPeer[u.peer_id].timestamp < ts
            IN  (u.key \in DOMAIN contract_propagation /\ replay_record(rec, ts))
                => /\ u.key \in DOMAIN contract_propagation'
                   /\ after.current_hash = prop.current_hash =>
                         /\ after.first_seen = prop.first_seen
                         /\ \A p \in DOMAIN prop.peers :
                               p \in DOMAIN after.peers /\ after.peers[p] = prop.peers[p]
                   /\ (u.hash = prop.current_hash /\ ts - prop.first_seen > 5 * 60 * 1000) =>
                         /\ after.peers = prop.peers
                         /\ after.last_seen = prop.last_seen
                   /\ (given /\ u.hash # prop.current_hash) =>
                         /\ after.previous =
                               [hash |-> prop.current_hash, first_seen |-> prop.first_seen,
                                propagation_ms |-> prop.last_seen - prop.first_seen,
                                peer_count |-> Cardinality(DOMAIN prop.peers)]
                         /\ after.current_hash = u.hash
                         /\ after.first_seen = ts /\ after.last_seen = ts
                         /\ DOMAIN after.peers = {u.peer_id}
                         /\ after.peers[u.peer_id] = ts]_vars

\* C26 witness: a hash was archived, the current hash has a peer recorded
\* within its window, and another peer reported the current hash more than
\* 5 minutes after its first_seen and is not in the list.
C26_Witness ==
    /\ ContractKey \in DOMAIN contract_propagation
    /\ ContractKey \in DOMAIN contract_states
    /\ contract_propagation[ContractKey].previous # None
    /\ \E p \in DOMAIN contract_states[ContractKey] :
          /\ p \notin DOMAIN contract_propagation[ContractKey].peers
          /\ contract_states[ContractKey][p].hash = contract_propagation[ContractKey].current_hash
          /\ contract_states[ContractKey][p].timestamp
                 - contract_propagation[ContractKey].first_seen > 5 * 60 * 1000

(***************************************************************************)
(* SpecHistory: the buffer holds events of the last hours, HistoryRoom     *)
(* short of a pruning round, its oldest one aged past the limit or not;    *)
(* records keep arriving, in any order of their timestamps, and sessions   *)
(* ask for the history.                                                    *)
(***************************************************************************)
InitHistory ==
    /\ FanIdle /\ AdmIdle /\ NameIdleAt(HistoryEpoch) /\ IndexesEmpty
    /\ \E first \in {0, 2 * 60 * 60 * 1000} :
          event_history = [i \in 1..(PRUNE_INTERVAL - HistoryRoom) |->
                             HistoryEvent(IF i = 1 THEN first ELSE 2 * 60 * 60 * 1000)]
    /\ transactions = <<>>
    /\ transaction_order = <<>>
    /\ latencies = <<>>
    /\ percentiles = None
    /\ op_stats = NoOpStats
    /\ TailIdle
    /\ network_state = None

NextHistory ==
    \/ \E ts \in HistoryStamps : store_history(ts)
    \/ get_history

SpecHistory == InitHistory /\ [][NextHistory]_vars

\* the buffer h is within its limits at time now_ns
WithinLimits(h, now_ns) ==
    /\ Len(h) <= MAX_HISTORY_EVENTS
    /\ \A i \in 1..Len(h) : ~(h[i].timestamp < now_ns - MAX_HISTORY_AGE_NS)

\* C15: the history buffer is bounded in size and age. After a process_record
\* call that triggered prune_old_events, and after get_history, the buffer
\* holds at most MAX_HISTORY_EVENTS entries and no entry older than two hours,
\* in whatever order the record timestamps arrive.
C15_HistoryBounded ==
    [][/\ \A ts \in HistoryStamps :
            (/\ Len(deque_append(event_history, HistoryEvent(ts))) % PRUNE_INTERVAL = 0
             /\ store_history(ts))
            => WithinLimits(event_history', now')
       /\ get_history => WithinLimits(event_history', now')]_vars

(***************************************************************************)
(* The transaction log (lines 470-475, 557-563, 739-855, 1359-1363).       *)
(* Transaction ids are numbers: NullTx stands for the all-zero id, 1.. for *)
(* the others.  An event type is the sequence of its words, "put_request"  *)
(* being <<"put", "request">>, so that the prefix tests of the code are    *)
(* tests on the first word.  An end_ns of None is NoTime.                  *)
(***************************************************************************)
NullTx == 0

\* event_type.startswith("subscribe") / startswith("connect"), on the event
\* types of TxEventTypes
StartsWith(event_type, prefix) ==
    /\ event_type # <<>>
    /\ \/ event_type[1] = prefix
       \/ prefix = "subscribe" /\ event_type[1] = "subscribed"
       \/ prefix = "connect" /\ event_type[1] = "connected"

\* event_type.startswith(word + "_")
StartsWithWord(event_type, word) == Len(event_type) > 1 /\ event_type[1] = word

\* "broadcast" in event_type
Mentions(event_type, word) == \E i \in 1..Len(event_type) : event_type[i] = word

\* op_type, is_start, is_end and status of an event type (lines 749-799)
tx_kind(event_type) ==
    LET kind(op, start, end, status) ==
            [op_type |-> op, is_start |-> start, is_end |-> end, status |-> status]
    IN  IF StartsWithWord(event_type, "put")
        THEN IF event_type = <<"put", "request">> THEN kind("put", TRUE, FALSE, "")
             ELSE IF event_type = <<"put", "success">> THEN kind("put", FALSE, TRUE, "success")
             ELSE kind("put", FALSE, FALSE, "")
        ELSE IF StartsWithWord(event_type, "get")
        THEN IF event_type = <<"get", "request">> THEN kind("get", TRUE, FALSE, "")
             ELSE IF event_type = <<"get", "success">> THEN kind("get", FALSE, TRUE, "success")
             ELSE IF event_type = <<"get", "not", "found">>
                  THEN kind("get", FALSE, TRUE, "not_found")
             ELSE kind("get", FALSE, FALSE, "")
        ELSE IF StartsWithWord(event_type, "update")
        THEN IF event_type = <<"update", "request">> THEN kind("update", TRUE, FALSE, "")
             ELSE IF event_type = <<"update", "success">>
                  THEN kind("update", FALSE, TRUE, "success")
             ELSE kind("update", FALSE, FALSE, "")
        ELSE IF StartsWith(event_type, "subscribe")
        THEN IF event_type = <<"subscribe", "request">> THEN kind("subscribe", TRUE, FALSE, "")
             ELSE IF event_type = <<"subscribed">> THEN kind("subscribe", FALSE, TRUE, "success")
             ELSE kind("subscribe", FALSE, FALSE, "")
        ELSE IF StartsWith(event_type, "connect")
        THEN IF event_type = <<"connect", "request", "sent">>
             THEN kind("connect", TRUE, FALSE, "")
             ELSE IF event_type = <<"connect", "connected">>
                  THEN kind("connect", FALSE, TRUE, "success")
             ELSE kind("connect", FALSE, FALSE, "")
        ELSE IF event_type = <<"disconnect">> THEN kind("disconnect", TRUE, TRUE, "complete")
        ELSE IF Mentions(event_type, "broadcast") THEN kind("broadcast", FALSE, FALSE, "")
        ELSE kind(IF event_type # <<>> THEN event_type[1] ELSE "other", FALSE, FALSE, "")

TRACKED_TX_OPS_with_subscribe == {"put", "get", "update", "broadcast", "subscribe"}

TRACKED_TX_OPS == {"put", "get", "update", "broadcast"}

RECURSIVE prune_old_transactions(_)
\* prune_old_transactions (lines 557-563), on [transactions, transaction_order]
prune_old_transactions(log) ==
    IF Len(log.transaction_order) > MAX_TRANSACTIONS
    THEN prune_old_transactions(
             [transactions |-> Restrict(log.transactions,
                                  DOMAIN log.transactions \ {Head(log.transaction_order)}),
              transaction_order |-> Tail(log.transaction_order)])
    ELSE log

\* track_transaction (lines 739-855) without contract key and body type: the
\* log [transactions, transaction_order] after the call
track_transaction(log, tx_id, event_type, timestamp) ==
    LET k == tx_kind(event_type)
        created ==
            IF tx_id \in DOMAIN log.transactions THEN log
            ELSE prune_old_transactions(
                     [transactions |-> log.transactions @@ (tx_id :>
                          [op |-> IF k.op_type # "" THEN k.op_type ELSE "unknown",
                           events |-> <<>>,
                           start_ns |-> timestamp,
                           end_ns |-> NoTime,
                           status |-> IF k.is_start /\ ~k.is_end THEN "pending"
                                      ELSE "complete"]),
                      transaction_order |-> Append(log.transaction_order, tx_id)])
        tx == created.transactions[tx_id]
        updated ==
            [tx EXCEPT
               !.events = Append(@, [timestamp |-> timestamp, event_type |-> event_type]),
               !.op = IF k.op_type # "" /\ @ = "unknown" THEN k.op_type ELSE @,
               !.start_ns = IF timestamp < @ THEN timestamp ELSE @,
               !.end_ns = IF k.is_end THEN timestamp
                          ELSE IF timestamp > (IF @ = NoTime THEN 0 ELSE @) THEN timestamp
                          ELSE @,
               !.status = IF k.is_end THEN (IF k.status # "" THEN k.status ELSE "complete")
                          ELSE @]
    IN  IF tx_id = NullTx THEN log
        ELSE IF k.op_type \notin TRACKED_TX_OPS /\ tx_id \notin DOMAIN log.transactions
        THEN log
        ELSE [created EXCEPT !.transactions[tx_id] = updated]

\* SpecTx starts with a log TxRoom transactions short of MAX_TRANSACTIONS and
\* hands MaxTracked records to process_record
TxRoom == 1

MaxTracked == 2

\* the transaction ids of the records: none, the oldest of the log, new ones
TxIds == {NullTx, 1} \cup ((MAX_TRANSACTIONS + 1)..(MAX_TRANSACTIONS + MaxTracked))

TxEventTypes ==
    {<<"put", "request">>, <<"put", "success">>, <<"get", "not", "found">>,
     <<"update", "broadcast", "emitted">>, <<"broadcast", "emitted">>,
     <<"subscribed">>, <<"connect", "connected">>, <<"disconnect">>,
     <<"peer", "startup">>}

\* process_record hands the record's transaction id and event type to
\* track_transaction (lines 1359-1363)
process_record_tx(tx_id, event_type) ==
    /\ records < MaxTracked
    /\ records' = records + 1
    /\ LET log == track_transaction([transactions |-> transactions,
                                     transaction_order |-> transaction_order],
                                    tx_id, event_type, now)
       IN  /\ transactions' = log.transactions
           /\ transaction_order' = log.transaction_order
    /\ UNCHANGED <<peers, connections, ip_to_peer_id, peer_id_to_ip, attrs_peer_id_to_ip,
                   peer_presence, subscriptions, seeding_state, contract_states,
                   contract_propagation, peer_lifecycle, pending_ops, associated,
                   last_event, offered, event_history, latencies, percentiles, op_stats, tailVars>>
    /\ UNCHANGED <<network_state, fanVars, admVars, nameVars>>

(***************************************************************************)
(* SpecTx: the log holds put transactions, TxRoom short of its capacity;   *)
(* records of every kind arrive, with new and with known transaction ids.  *)
(***************************************************************************)
InitTx ==
    /\ FanIdle /\ AdmIdle /\ NameIdle /\ IndexesEmpty
    /\ event_history = <<>>
    /\ latencies = <<>>
    /\ percentiles = None
    /\ op_stats = NoOpStats
    /\ TailIdle
    /\ network_state = None
    /\ transaction_order = [i \in 1..(MAX_TRANSACTIONS - TxRoom) |-> i]
    /\ transactions = [i \in 1..(MAX_TRANSACTIONS - TxRoom) |->
                         [op |-> "put",
                          events |-> <<[timestamp |-> 0, event_type |-> <<"put", "success">>]>>,
                          start_ns |-> 0, end_ns |-> 0, status |-> "success"]]

NextTx == \E tx_id \in TxIds, event_type \in TxEventTypes : process_record_tx(tx_id, event_type)

SpecTx == InitTx /\ [][NextTx]_vars

\* the last n entries of the sequence s
LastN(s, n) == IF Len(s) <= n THEN s ELSE SubSeq(s, Len(s) - n + 1, Len(s))

MaxTxEvents == 3

LifetimeIds == {1, 2}

LifetimeEvents ==
    {<<"put", "request">>, <<"put", "success">>, <<"get", "not", "found">>,
     <<"broadcast", "emitted">>}

\* process_record hands a replayed record's transaction id, event type and
\* timestamp to track_transaction (lines 1359-1363)
replay_record_tx(tx_id, event_type, ts) ==
    /\ records < MaxTxEvents
    /\ records' = records + 1
    /\ LET log == track_transaction([transactions |-> transactions,
                                     transaction_order |-> transaction_order],
                                    tx_id, event_type, ts)
       IN  /\ transactions' = log.transactions
           /\ transaction_order' = log.transaction_order
    /\ UNCHANGED <<peers, connections, ip_to_peer_id, peer_id_to_ip, attrs_peer_id_to_ip,
                   peer_presence, subscriptions, seeding_state, contract_states,
                   contract_propagation, peer_lifecycle, pending_ops, associated,
                   last_event, offered, event_history, latencies, percentiles, op_stats, tailVars>>
    /\ UNCHANGED <<network_state, fanVars, admVars, nameVars>>

InitLifetime == FanIdle /\ AdmIdle /\ NameIdle /\ NetEmpty

NextLifetime ==
    \E tx_id \in LifetimeIds, event_type \in LifetimeEvents, ts \in Stamps :
       replay_record_tx(tx_id, event_type, ts)

SpecLifetime == InitLifetime /\ [][NextLifetime]_vars

\* the terminal events of a transaction
TerminalEvents ==
    {<<"put", "success">>, <<"get", "success">>, <<"get", "not", "found">>,
     <<"update", "success">>}

\* C27: for every retained transaction that has observed a terminal event,
\* end_ns is the timestamp of one of its terminal events, whatever the order
\* its events arrive in, and its status is success or not_found and does not
\* return to pending.
C27_EndIsTerminal ==
    /\ [](\A tx \in DOMAIN transactions :
            LET events == transactions[tx].events
                ends == {events[i].timestamp :
                            i \in {j \in 1..Len(events) :
                                      events[j].event_type \in TerminalEvents}}
            IN  ends # {} => /\ transactions[tx].end_ns \in ends
                             /\ transactions[tx].status \in {"success", "not_found"})
    /\ [][\A tx \in DOMAIN transactions \cap DOMAIN transactions' :
            transactions[tx].status \in {"success", "not_found"}
               => transactions'[tx].status # "pending"]_vars

(***************************************************************************)
(* Latency samples and their percentiles (lines 936-946, 1376-1387).       *)
(***************************************************************************)
\* sorted(latencies)[index]: the least sample v such that more than index
\* samples are <= v (the lists of Python count from 0)
sorted_lat(lat, index) ==
    LET values == {lat[j] : j \in 1..Len(lat)}
        upto(v) == Cardinality({j \in 1..Len(lat) : lat[j] <= v})
    IN  CHOOSE v \in values :
            /\ upto(v) > index
            /\ \A u \in values : u < v => upto(u) <= index

percentile_index_from_top(n, percent) == n - 1 - (n * percent) \div 100

\* int(n * 0.50), int(n * 0.95), int(n * 0.99): for n up to MAX_LATENCIES the
\* floating-point product truncates to the same integer as n * percent / 100
percentile_index(n, percent) == (n * percent) \div 100

\* no percentile (None in the code)
NoPercentile == -1

\* calc_percentiles (lines 1378-1387)
calc_percentiles(lat) ==
    LET n == Len(lat)
    IN  IF lat = <<>> THEN [p50 |-> NoPercentile, p95 |-> NoPercentile, p99 |-> NoPercentile]
        ELSE [p50 |-> IF n > 0 THEN sorted_lat(lat, percentile_index(n, 50)) ELSE NoPercentile,
              p95 |-> IF n > 1 THEN sorted_lat(lat, percentile_index(n, 95)) ELSE NoPercentile,
              p99 |-> IF n > 2 THEN sorted_lat(lat, percentile_index(n, 99)) ELSE NoPercentile]

\* the latencies measured, in milliseconds
LatencySamples == {0, 1, 2, 3, MAX_LATENCY_MS}

\* process_record measured the latency of a put (lines 940-946)
record_latency(latency_ms) ==
    /\ records < MaxSamples
    /\ records' = records + 1
    /\ latencies' =
         IF 0 < latency_ms /\ latency_ms < MAX_LATENCY_MS
         THEN LET appended == Append(latencies, latency_ms)
              IN  IF Len(appended) > MAX_LATENCIES
                  THEN SubSeq(appended, Len(appended) - MAX_LATENCIES + 1, Len(appended))
                  ELSE appended
         ELSE latencies
    /\ UNCHANGED <<peers, connections, ip_to_peer_id, peer_id_to_ip, attrs_peer_id_to_ip,
                   peer_presence, subscriptions, seeding_state, contract_states,
                   contract_propagation, peer_lifecycle, pending_ops, associated,
                   last_event, offered, event_history, transactions, transaction_order,
                   percentiles, op_stats, tailVars>>
    /\ UNCHANGED <<network_state, fanVars, admVars, nameVars>>

\* get_operation_stats computes the percentiles of the put latencies
get_operation_stats ==
    /\ percentiles' = calc_percentiles(latencies)
    /\ UNCHANGED <<peers, connections, ip_to_peer_id, peer_id_to_ip, attrs_peer_id_to_ip,
                   peer_presence, subscriptions, seeding_state, contract_states,
                   contract_propagation, peer_lifecycle, pending_ops, associated, records,
                   last_event, offered, event_history, transactions, transaction_order,
                   latencies, op_stats, tailVars>>
    /\ UNCHANGED <<network_state, fanVars, admVars, nameVars>>

(***************************************************************************)
(* Operation counters and latencies (lines 932-981, 1389-1403).            *)
(***************************************************************************)
\* Mutant: every measured latency is kept.
append_latency_unchecked(lat, latency_ms) ==
    LET appended == Append(lat, latency_ms)
    IN  IF Len(appended) > MAX_LATENCIES
        THEN SubSeq(appended, Len(appended) - MAX_LATENCIES + 1, Len(appended))
        ELSE appended

\* the latency list after a success of a pending operation (lines 940-944)
append_latency(lat, latency_ms) ==
    IF 0 < latency_ms /\ latency_ms < MAX_LATENCY_MS
    THEN LET appended == Append(lat, latency_ms)
         IN  IF Len(appended) > MAX_LATENCIES
             THEN SubSeq(appended, Len(appended) - MAX_LATENCIES + 1, Len(appended))
             ELSE appended
    ELSE lat

\* the counters and the get and update latencies after a record (lines
\* 932-981); pending says that the record's transaction is in pending_ops
count_op(stats, event_type, pending, latency_ms) ==
    IF event_type = "put_request" THEN [stats EXCEPT !.put.requests = @ + 1]
    ELSE IF event_type = "put_success" THEN [stats EXCEPT !.put.successes = @ + 1]
    ELSE IF event_type = "get_request" THEN [stats EXCEPT !.get.requests = @ + 1]
    ELSE IF event_type = "get_success"
    THEN [stats EXCEPT !.get.successes = @ + 1,
                       !.get.latencies = IF pending THEN append_latency(@, latency_ms) ELSE @]
    ELSE IF event_type = "get_not_found" THEN [stats EXCEPT !.get.not_found = @ + 1]
    ELSE IF event_type = "update_request" THEN [stats EXCEPT !.update.requests = @ + 1]
    ELSE IF event_type = "update_success"
    THEN [stats EXCEPT !.update.successes = @ + 1,
                       !.update.latencies = IF pending THEN append_latency(@, latency_ms) ELSE @]
    ELSE IF event_type \in {"update_broadcast_emitted", "broadcast_emitted"}
    THEN [stats EXCEPT !.update.broadcasts = @ + 1]
    ELSE IF event_type = "subscribe_request" THEN [stats EXCEPT !.subscribe.requests = @ + 1]
    ELSE IF event_type = "subscribed" THEN [stats EXCEPT !.subscribe.successes = @ + 1]
    ELSE stats

\* no rate (None in the code)
NoRate == -1

\* calc_rate (lines 1389-1392): round(successes / requests * 100, 1), in
\* tenths of a percent, a tie rounded to the even tenth
calc_rate(successes, requests) ==
    IF requests = 0 THEN NoRate
    ELSE LET n == successes * 1000
             floor == n \div requests
             twice == 2 * (n % requests)
         IN  IF twice < requests THEN floor
             ELSE IF twice > requests THEN floor + 1
             ELSE IF floor % 2 = 0 THEN floor ELSE floor + 1

\* the "put" entry of get_operation_stats (lines 1399-1403)
put_stats(stats, lat) ==
    [total |-> stats.put.requests,
     success_rate |-> calc_rate(stats.put.successes, stats.put.requests),
     latency |-> calc_percentiles(lat)]

\* SpecLatency hands MaxOps records to process_record and starts with an
\* empty put list or with one StatsRoom samples short of MAX_LATENCIES
MaxOps == 3

StatsRoom == 1

OpIds == {"", "tx1"}

OpEvents ==
    {"put_request", "put_success", "get_request", "get_success", "get_not_found",
     "update_request", "update_success"}

\* timestamps that give latencies of 0, 42, MAX_LATENCY_MS, more, and less
\* than 0 milliseconds
OpStamps == {0, 42, MAX_LATENCY_MS + 42}

\* process_record counts the record of an operation and measures its latency
\* (lines 932-975)
process_record_op(tx_id, event_type, ts) ==
    /\ records < MaxOps
    /\ records' = records + 1
    /\ LET pending == tx_id # "" /\ tx_id \in DOMAIN pending_ops
           latency_ms == ts - pending_ops[tx_id].start_ns
       IN  /\ pending_ops' =
                 track_pending_op(World, [Record(event_type, "", ts) EXCEPT !.id = tx_id]).pending_ops
           /\ latencies' = IF event_type = "put_success" /\ pending
                           THEN append_latency(latencies, latency_ms)
                           ELSE latencies
           /\ op_stats' = count_op(op_stats, event_type, pending, latency_ms)
    /\ UNCHANGED <<peers, connections, ip_to_peer_id, peer_id_to_ip, attrs_peer_id_to_ip,
                   peer_presence, subscriptions, seeding_state, contract_states,
                   contract_propagation, peer_lifecycle, associated,
                   last_event, offered, event_history, transactions, transaction_order,
                   percentiles, tailVars>>
    /\ UNCHANGED <<network_state, fanVars, admVars, nameVars>>

(***************************************************************************)
(* SpecLatency: no operation has been counted yet, or the put list is      *)
(* StatsRoom samples short of its capacity and one put is pending; records *)
(* of put, get and update operations arrive, with and without a            *)
(* transaction id.                                                         *)
(***************************************************************************)
InitLatency ==
    /\ FanIdle /\ AdmIdle /\ NameIdle /\ TailIdle
    /\ associated = [ip \in PublicIPs \cup {PrivateIP} |-> {}]
    /\ records = 0
    /\ last_event = None
    /\ offered = <<>>
    /\ event_history = <<>>
    /\ transactions = <<>>
    /\ transaction_order = <<>>
    /\ percentiles = None
    /\ network_state = None
    /\ \/ /\ NetIs(EmptyWorld)
          /\ latencies = <<>>
          /\ op_stats = NoOpStats
       \/ /\ NetIs([EmptyWorld EXCEPT
                       !.pending_ops = DictPut(<<>>, "tx1", [op |-> "put", start_ns |-> 0])])
          /\ latencies = [i \in 1..(MAX_LATENCIES - StatsRoom) |-> 1 + (i % 3)]
          /\ op_stats = [NoOpStats EXCEPT
                            !.put = [requests |-> MAX_LATENCIES,
                                     successes |-> MAX_LATENCIES - StatsRoom]]

NextLatency ==
    \E tx_id \in OpIds, event_type \in OpEvents, ts \in OpStamps :
       process_record_op(tx_id, event_type, ts)

SpecLatency == InitLatency /\ [][NextLatency]_vars

\* the latency lists of put, get and update
LatencyLists(put, stats) ==
    [put |-> put, get |-> stats.get.latencies, update |-> stats.update.latencies]

\* C28: operation latency accounting. A put_success, get_success or
\* update_success whose transaction is in pending_ops removes the pending
\* entry and appends the latency to the list of its op exactly when the
\* latency is more than 0 and less than 5 minutes; get_not_found removes the
\* pending entry and appends nothing; no list holds more than 1,000 samples
\* and every sample is in (0, 300000) ms. A put_request at T followed by its
\* put_success at T + 42 ms gives total 1, success rate 100.0, the single
\* sample 42 and no pending entry.
C28_LatencyAccounting ==
    /\ [](LET lists == LatencyLists(latencies, op_stats) IN
          \A op \in DOMAIN lists :
             /\ Len(lists[op]) <= 1000
             /\ \A i \in 1..Len(lists[op]) : 0 < lists[op][i] /\ lists[op][i] < 300000)
    /\ [][\A tx_id \in OpIds \ {""}, event_type \in OpEvents, ts \in OpStamps :
            LET latency == ts - pending_ops[tx_id].start_ns
                before == LatencyLists(latencies, op_stats)
                after == LatencyLists(latencies', op_stats')
                op == IF event_type = "put_success" THEN "put"
                      ELSE IF event_type = "get_success" THEN "get" ELSE "update"
            IN  (tx_id \in DOMAIN pending_ops /\ process_record_op(tx_id, event_type, ts))
                => /\ event_type \in {"put_success", "get_success", "update_success"} =>
                         /\ tx_id \notin DOMAIN pending_ops'
                         /\ after[op] = IF 0 < latency /\ latency < 300000
                                        THEN LastN(Append(before[op], latency), 1000)
                                        ELSE before[op]
                         /\ \A other \in DOMAIN before \ {op} : after[other] = before[other]
                   /\ event_type = "get_not_found" =>
                         /\ tx_id \notin DOMAIN pending_ops'
                         /\ after = before
                   /\ (/\ event_type = "put_success"
                       /\ latency = 42
                       /\ DOMAIN pending_ops = {tx_id}
                       /\ op_stats.put = [requests |-> 1, successes |-> 0]
                       /\ latencies = <<>>) =>
                         /\ put_stats(op_stats', latencies').total = 1
                         /\ put_stats(op_stats', latencies').success_rate = 1000
                         /\ latencies' = <<42>>
                         /\ pending_ops' = <<>>]_vars

\* C28 witness: the put list is full, its oldest sample made room for the
\* latency of a put that was requested and succeeded 42 ms later, and no
\* operation is pending
C28_Witness ==
    /\ Len(latencies) = 1000
    /\ latencies[1000] = 42
    /\ op_stats.put.successes = 1001
    /\ op_stats.put.requests = 1001
    /\ pending_ops = <<>>

(***************************************************************************)
(* SpecStats: latencies are measured and the statistics are asked for, in  *)
(* any order, from an empty sample list and from an almost full one.       *)
(***************************************************************************)
InitStats ==
    /\ FanIdle /\ AdmIdle /\ NameIdle /\ IndexesEmpty
    /\ event_history = <<>>
    /\ transactions = <<>>
    /\ transaction_order = <<>>
    /\ percentiles = None
    /\ op_stats = NoOpStats
    /\ TailIdle
    /\ network_state = None
    /\ \/ latencies = <<>>
       \/ latencies = [i \in 1..(MAX_LATENCIES - LatencyRoom) |-> 1 + (i % 3)]

NextStats ==
    \/ \E latency_ms \in LatencySamples : record_latency(latency_ms)
    \/ get_operation_stats

SpecStats == InitStats /\ [][NextStats]_vars

\* C19: for every latency sample list with at least three samples (and at most
\* 1,000) the percentiles satisfy p50 <= p95 <= p99, each is an element of the
\* sample list, and the index computed for each percentile is inside the list.
C19_PercentilesOrdered ==
    /\ [](\A n \in 3..1000 :
            /\ 0 <= percentile_index(n, 50)
            /\ percentile_index(n, 50) <= percentile_index(n, 95)
            /\ percentile_index(n, 95) <= percentile_index(n, 99)
            /\ percentile_index(n, 99) < n)
    /\ [][(get_operation_stats /\ Len(latencies) >= 3) =>
            /\ Len(latencies) <= 1000
            /\ percentiles'.p50 <= percentiles'.p95
            /\ percentiles'.p95 <= percentiles'.p99
            /\ {percentiles'.p50, percentiles'.p95, percentiles'.p99}
                  \subseteq {latencies[i] : i \in 1..Len(latencies)}]_vars

\* the statistics of a full sample list whose median is below its 99th
\* percentile
C19_Witness ==
    /\ Len(latencies) = 1000
    /\ percentiles # None
    /\ percentiles = calc_percentiles(latencies)
    /\ percentiles.p50 < percentiles.p99

(***************************************************************************)
(* The snapshot: get_network_state (lines 1488-1571), its peers and its    *)
(* connections.  A pair [a1, a2] of the connection list is the set of its  *)
(* two ids, and the list is the bag of its pairs: the code iterates over   *)
(* the set connections in an order it does not control, so the order of    *)
(* the list carries nothing; order is the sequence in which the edges are  *)
(* visited.                                                                *)
(***************************************************************************)
\* the peers of lines 1512-1518
\* Mutant: every public peer is taken as live.
active_peer_ips_unfiltered(w, now_ns) ==
    {ip \in DOMAIN w.peers : is_public_ip(ip)}

active_peer_ips(w, now_ns) ==
    {ip \in DOMAIN w.peers :
        is_public_ip(ip) /\ now_ns - w.peers[ip].last_seen < STALE_PEER_THRESHOLD_NS}

\* how many pairs of conn_list name the peer id
conn_count(conn_list, id) ==
    BagCardinality(Restrict(conn_list, {pair \in DOMAIN conn_list : id \in pair}))

RECURSIVE conn_list_after(_, _, _)
\* the loop of lines 1560-1571 over the edges still to visit
conn_list_after(conn_list, order, active) ==
    IF order = <<>> THEN conn_list
    ELSE LET conn == Head(order)
             ids == {anonymize_ip(ip) : ip \in conn}
         IN  IF Cardinality(conn) = 2 /\ conn \subseteq active
             THEN IF \E id \in ids : conn_count(conn_list, id) >= MAX_CONN_PER_PEER
                  THEN conn_list_after(conn_list, Tail(order), active)
                  ELSE conn_list_after(conn_list (+) SetToBag({ids}), Tail(order), active)
             ELSE conn_list_after(conn_list, Tail(order), active)

\* the peers and the connections of the snapshot
get_network_state(w, now_ns, order) ==
    [peers |-> {[id |-> w.peers[ip].id, ip_hash |-> w.peers[ip].ip_hash,
                 location |-> w.peers[ip].location, peer_id |-> w.peers[ip].peer_id] :
                ip \in active_peer_ips(w, now_ns)},
     connections |-> conn_list_after(EmptyBag, order, active_peer_ips(w, now_ns))]

RECURSIVE SetToSeq(_)
\* the elements of the set S, one after the other
SetToSeq(S) ==
    IF S = {} THEN <<>>
    ELSE LET x == CHOOSE y \in S : TRUE IN <<x>> \o SetToSeq(S \ {x})

\* for every edge, an order of iteration that visits it last
IterationOrders(conns) ==
    IF conns = {} THEN {<<>>}
    ELSE {Append(SetToSeq(conns \ {last}), last) : last \in conns}

\* a session is sent the snapshot
take_snapshot ==
    /\ \E order \in IterationOrders(connections) :
          network_state' = get_network_state(World, now, order)
    /\ UNCHANGED <<peers, connections, ip_to_peer_id, peer_id_to_ip, attrs_peer_id_to_ip,
                   peer_presence, subscriptions, seeding_state, contract_states,
                   contract_propagation, peer_lifecycle, pending_ops, associated, records,
                   last_event, offered, event_history, transactions, transaction_order,
                   latencies, percentiles, op_stats, tailVars>>
    /\ UNCHANGED <<fanVars, admVars, nameVars>>

(***************************************************************************)
(* SpecSnapshot: a hub (PeerIP) has reported connections with spokes,      *)
(* HubRoom short of MAX_CONN_PER_PEER; the hub and two more peers report   *)
(* connections among themselves and sessions are sent snapshots.           *)
(***************************************************************************)
SpokeIPs ==
    <<"20.0.0.1", "20.0.0.2", "20.0.0.3", "20.0.0.4", "20.0.0.5", "20.0.0.6", "20.0.0.7",
      "20.0.0.8", "20.0.0.9", "20.0.0.10", "20.0.0.11", "20.0.0.12", "20.0.0.13",
      "20.0.0.14", "20.0.0.15", "20.0.0.16", "20.0.0.17", "20.0.0.18", "20.0.0.19",
      "20.0.0.20", "20.0.0.21">>

ThirdIP == "8.8.8.8"

\* the peer id of the peer at ip: P for the hub, Q for OtherIP, and for any
\* other peer an id written as its address
IdOf(ip) == IF ip = PeerIP THEN "P" ELSE IF ip = OtherIP THEN "Q" ELSE ip

\* the peer at a reports its connection with the peer at b
ConnectReport(a, b) ==
    [Record("connect", IdOf(a), 0) EXCEPT
        !.this_peer = PeerStr(IdOf(a), a, LocOf(a)),
        !.connected_peer = PeerStr(IdOf(b), b, LocOf(b))]

\* the hub reports its connection with the i-th spoke
SpokeConnect(i) == ConnectReport(PeerIP, SpokeIPs[i])

\* the indexes after process_record handled SpokeConnect(1), ...,
\* SpokeConnect(n) at time 0
HubWorld(n) ==
    LET spokes == {SpokeIPs[i] : i \in 1..n}
        ips == IF n = 0 THEN {} ELSE {PeerIP} \cup spokes
    IN  [EmptyWorld EXCEPT
           !.peers = [ip \in ips |->
                        [id |-> anonymize_ip(ip), ip_hash |-> ip_hash(ip),
                         location |-> LocOf(ip), last_seen |-> 0,
                         connections |-> IF ip = PeerIP THEN spokes ELSE {PeerIP},
                         peer_id |-> IdOf(ip)]],
           !.connections = {{PeerIP, ip} : ip \in spokes},
           !.ip_to_peer_id = [ip \in ips |-> IdOf(ip)],
           !.peer_id_to_ip = [id \in {IdOf(ip) : ip \in ips} |->
                                CHOOSE ip \in ips : IdOf(ip) = id],
           !.attrs_peer_id_to_ip = [id \in {IdOf(ip) : ip \in ips \cap {PeerIP}} |-> PeerIP],
           !.peer_presence = [ip \in ips |->
                                [id |-> anonymize_ip(ip), ip_hash |-> ip_hash(ip),
                                 location |-> LocOf(ip), first_seen |-> 0,
                                 peer_id |-> IdOf(ip)]]]

\* connect records among the hub and the two other peers, each peer
\* reporting under its own id
SnapshotRecords ==
    {ConnectReport(pair[1], pair[2]) :
     pair \in {p \in {PeerIP, OtherIP, ThirdIP} \X {PeerIP, OtherIP, ThirdIP} : p[1] # p[2]}}

InitSnapshot ==
    /\ FanIdle /\ AdmIdle /\ NameIdle
    /\ NetIs(HubWorld(MAX_CONN_PER_PEER - HubRoom))
    /\ associated = [ip \in PublicIPs \cup {PrivateIP} |->
                        BoundIds(HubWorld(MAX_CONN_PER_PEER - HubRoom), ip)]
    /\ records = 0
    /\ last_event = process_record_event(HubWorld(MAX_CONN_PER_PEER - HubRoom - 1),
                                         SpokeConnect(MAX_CONN_PER_PEER - HubRoom))
    /\ offered = <<>>
    /\ LogsEmpty

NextSnapshot ==
    \/ \E rec \in SnapshotRecords : process_record(rec)
    \/ take_snapshot

SpecSnapshot == InitSnapshot /\ [][NextSnapshot]_vars

\* the number of connections the peer ip has with live peers
live_degree(ip) ==
    Cardinality({conn \in connections :
                    /\ ip \in conn
                    /\ Cardinality(conn) = 2
                    /\ conn \subseteq active_peer_ips(World, now)})

\* how often the snapshot snap lists the pair of a and b
listed(snap, a, b) == CopiesIn({anonymize_ip(a), anonymize_ip(b)}, snap.connections)

\* a snapshot has just been taken: take_snapshot alone changes network_state
SnapshotTaken == network_state' # network_state

\* what a connect record between a and b does to the indexes: the edge is
\* there, each end is in the other's neighbor set, and the connection
\* side-band is in the event exactly when the record inserted the edge
ConnectStep ==
    \A rec \in SnapshotRecords :
        LET a == parse_peer_string(rec.this_peer).ip
            b == other_peer(rec).ip
        IN  process_record(rec) =>
                /\ {a, b} \in connections'
                /\ b \in peers'[a].connections
                /\ a \in peers'[b].connections
                /\ (last_event'.connection # Absent) <=> ({a, b} \notin connections)
                /\ last_event'.connection # Absent =>
                      last_event'.connection = <<anonymize_ip(a), anonymize_ip(b)>>

InitFan ==
    /\ clients = {"A", "B"}
    /\ queue = [h \in Handlers |->
                  IF h = "B" THEN [i \in 1..Backlog |-> Batch(<<Event(i + 1)>>)] ELSE <<>>]
    /\ dropped_count = [h \in Handlers |-> 0]
    /\ closed = [h \in Handlers |-> FALSE]
    /\ sender = [h \in Handlers |-> IF h = "B" THEN "sending" ELSE "wait"]
    /\ inflight = [h \in Handlers |-> IF h = "B" THEN Batch(<<Event(1)>>) ELSE NoMsg]
    /\ ws = [h \in Handlers |-> "open"]
    /\ sent = [h \in Handlers |-> <<StateMsg, HistoryMsg>>]
    /\ event_buffer = <<>>
    /\ enq_count = Backlog + 1
    /\ AdmIdle /\ NetIdle /\ NameIdle

NextFan ==
    \/ buffer_event
    \/ flush_event_buffer
    \/ \E h \in Handlers : sender_get(h)
    \/ \E h \in Handlers : sender_sent(h)
    \/ \E h \in Handlers : sender_failed(h)
    \/ \E h \in Handlers : socket_closed(h)
    \/ \E h \in Handlers : handle_client_finally(h)

SpecFan == InitFan /\ [][NextFan]_vars


(***************************************************************************)
(* Claims about the fan-out layer (SpecFan).                               *)
(***************************************************************************)
\* The numbers of the events carried by one message.
OwnNums(m) ==
    IF m.type = "event_batch" THEN [i \in 1..Len(m.events) |-> m.events[i].n] ELSE <<>>

RECURSIVE EventNumsIn(_, _, _)
\* The numbers of the events carried by messages lo..hi of msgs, in order.
EventNumsIn(msgs, lo, hi) ==
    IF lo > hi THEN <<>>
    ELSE IF lo = hi THEN OwnNums(msgs[lo])
    ELSE LET mid == (lo + hi) \div 2
         IN EventNumsIn(msgs, lo, mid) \o EventNumsIn(msgs, mid + 1, hi)

\* The numbers of the events carried by a sequence of messages, in order.
EventNums(msgs) == EventNumsIn(msgs, 1, Len(msgs))

Increasing(s) == \A i \in 1..(Len(s) - 1) : s[i] < s[i + 1]

\* What a session has been sent and is still to be sent, oldest first.
Stream(h) ==
    sent[h] \o (IF inflight[h] = NoMsg THEN <<>> ELSE <<inflight[h]>>) \o queue[h]

\* C5: per-client ordering. For every session the events written to its socket,
\* followed by the events still held by its sender and its queue, are in the
\* order the interpreter appended them to the batch buffer: inside a batch,
\* across successive batches, and after any number of drops.
C5_Ordering == \A h \in Handlers : Increasing(EventNums(Stream(h)))

\* C5 witness: the slow session dropped a batch, later wrote batches to its
\* socket, and the other session was sent a batch of several events.
C5_Witness ==
    /\ dropped_count["B"] > 0
    /\ Len(sent["B"]) >= 4
    /\ \E i \in 1..Len(sent["A"]) :
          /\ sent["A"][i].type = "event_batch"
          /\ Len(sent["A"][i].events) >= 2

\* the event_batch messages among the messages msgs
BatchesIn(msgs) == {msgs[i] : i \in {j \in 1..Len(msgs) : msgs[j].type = "event_batch"}}

\* the numbers of the events of a sequence of events
NumsOf(events) == {events[i].n : i \in 1..Len(events)}

\* no number occurs twice in nums, and none of them is in buffered
HeldOnce(nums, buffered) ==
    /\ Cardinality({nums[i] : i \in 1..Len(nums)}) = Len(nums)
    /\ \A i \in 1..Len(nums) : nums[i] \notin buffered

\* a batch of mine is a batch of theirs, or shares no event with their
\* event numbers
SameOrApart(mine, theirs, their_nums) ==
    \A m \in mine :
       \/ m \in theirs
       \/ \A i \in 1..Len(their_nums) : their_nums[i] \notin NumsOf(m.events)

\* C23: batch flushing under interleaving with buffer_event. Every event is
\* contained in at most one event_batch message, and an event still in the
\* buffer in none; one flush enqueues at most one event_batch message per
\* connected session, the one carrying the buffer, none is enqueued when the
\* buffer is empty, and the flush leaves the buffer empty.
C23_FlushOnce ==
    /\ [](\A h \in Handlers :
            /\ HeldOnce(EventNums(Stream(h)), NumsOf(event_buffer))
            /\ \A g \in Handlers :
                  SameOrApart(BatchesIn(Stream(h)), BatchesIn(Stream(g)),
                              EventNums(Stream(g))))
    /\ [][/\ flush_event_buffer =>
               /\ event_buffer' = <<>>
               /\ \A h \in Handlers :
                     /\ BatchesIn(queue'[h]) \subseteq BatchesIn(queue[h]) \cup {Batch(event_buffer)}
                     /\ h \notin clients => queue'[h] = queue[h]
          /\ event_buffer = <<>> =>
               \A h \in Handlers : BatchesIn(queue'[h]) \subseteq BatchesIn(queue[h])]_vars

\* a session holds two batches, one of them of several events, and the
\* buffer holds an event that is in neither
C23_Witness ==
    /\ event_buffer # <<>>
    /\ Cardinality(BatchesIn(Stream("A"))) >= 2
    /\ \E m \in BatchesIn(Stream("A")) : Len(m.events) >= 2
    /\ Cardinality(BatchesIn(sent["B"])) >= 1

\* What session a can observe: its own handler and the shared batch buffer.
View(a) ==
    <<queue[a], dropped_count[a], closed[a], sender[a], inflight[a], ws[a], sent[a],
      a \in clients, event_buffer, enq_count>>

\* The steps of the system restricted to what session a observes, written
\* without reference to any other session.
ViewLocalUnchanged(a) ==
    /\ closed'[a] = closed[a] /\ sender'[a] = sender[a] /\ inflight'[a] = inflight[a]
    /\ ws'[a] = ws[a] /\ sent'[a] = sent[a] /\ (a \in clients') = (a \in clients)

ViewBuffer(a) ==
    /\ event_buffer' = Append(event_buffer, Event(enq_count + 1))
    /\ enq_count' = enq_count + 1
    /\ queue'[a] = queue[a] /\ dropped_count'[a] = dropped_count[a]
    /\ ViewLocalUnchanged(a)

ViewFlush(a) ==
    /\ event_buffer # <<>>
    /\ event_buffer' = <<>>
    /\ enq_count' = enq_count
    /\ queue'[a] = IF a \in clients /\ ~closed[a]
                   THEN (IF QueueFull(queue[a]) THEN Tail(queue[a]) ELSE queue[a])
                        \o <<Batch(event_buffer)>>
                   ELSE queue[a]
    /\ dropped_count'[a] = IF a \in clients /\ ~closed[a] /\ QueueFull(queue[a])
                           THEN dropped_count[a] + 1 ELSE dropped_count[a]
    /\ ViewLocalUnchanged(a)

ViewOwn(a) ==
    /\ UNCHANGED <<event_buffer, enq_count>>
    /\ \/ sender_get(a) \/ sender_sent(a) \/ sender_failed(a)
       \/ socket_closed(a) \/ handle_client_finally(a)

\* C6: session isolation. Every step of the system either leaves what session a
\* observes unchanged (in particular every sender step, socket failure and
\* disconnect of another session does) or changes it as a function of a's own
\* state and the shared buffer alone; a flush is never blocked by any queue, and
\* a session loses a message only when its own queue is full.
C6_Isolation ==
    /\ [](event_buffer # <<>> => ENABLED flush_event_buffer)
    /\ [][\A a \in Handlers :
            /\ \/ View(a)' = View(a)
               \/ ViewBuffer(a) \/ ViewFlush(a) \/ ViewOwn(a)
            /\ dropped_count'[a] # dropped_count[a] => QueueFull(queue[a])]_vars

\* C6 witness: B is slow and has lost messages and its socket has failed, while
\* A lost nothing and was sent every batch flushed since it connected.
C6_Witness ==
    /\ dropped_count["B"] >= 2
    /\ ws["B"] = "closed"
    /\ dropped_count["A"] = 0
    /\ EventNums(Stream("A")) = [i \in 1..MaxEvents |-> Backlog + 1 + i]
    /\ Len(sent["A"]) >= 4

(***************************************************************************)
(* SpecQueue: one admitted session whose sender is not reading (it is      *)
(* suspended inside ws.send of an earlier direct write); enqueue is called *)
(* with m1, m2, ... on its initially empty queue.                          *)
(***************************************************************************)
InitQueue ==
    /\ clients = {"A"}
    /\ queue = [h \in Handlers |-> <<>>]
    /\ dropped_count = [h \in Handlers |-> 0]
    /\ closed = [h \in Handlers |-> FALSE]
    /\ sender = [h \in Handlers |-> IF h = "A" THEN "wait" ELSE "none"]
    /\ inflight = [h \in Handlers |-> NoMsg]
    /\ ws = [h \in Handlers |-> IF h = "A" THEN "open" ELSE "none"]
    /\ sent = [h \in Handlers |-> <<>>]
    /\ event_buffer = <<>>
    /\ enq_count = 0
    /\ AdmIdle /\ NetIdle /\ NameIdle

EnqueueNext ==
    /\ enq_count < MaxEnqueue
    /\ enq_count' = enq_count + 1
    /\ EnqueueAll({"A"}, Msg(enq_count + 1))
    /\ UNCHANGED <<clients, closed, sender, inflight, ws, sent, event_buffer>>
    /\ UNCHANGED notFan

NextQueue == EnqueueNext

SpecQueue == InitQueue /\ [][NextQueue]_vars

\* The last k messages of m1..mN, in insertion order.
LastMsgs(N, k) == [i \in 1..k |-> Msg(N - k + i)]

\* C1: drop-oldest backpressure. After N enqueue calls on the initially empty,
\* unread queue with N > CLIENT_QUEUE_MAX the queue holds exactly the last
\* CLIENT_QUEUE_MAX messages in insertion order (the first N - CLIENT_QUEUE_MAX
\* are lost) and dropped_count = N - CLIENT_QUEUE_MAX; with N <= CLIENT_QUEUE_MAX
\* nothing is lost.
C1_DropOldest ==
    LET N == enq_count IN
    IF N > CLIENT_QUEUE_MAX
    THEN /\ queue["A"] = LastMsgs(N, CLIENT_QUEUE_MAX)
         /\ dropped_count["A"] = N - CLIENT_QUEUE_MAX
    ELSE /\ queue["A"] = LastMsgs(N, N)
         /\ dropped_count["A"] = 0

\* C1 witness: m1..m150 were enqueued, the queue starts at m51 and ends at m150
\* and exactly 50 messages were dropped.
C1_Witness ==
    /\ enq_count = 150
    /\ Head(queue["A"]) = Msg(51)
    /\ queue["A"][Len(queue["A"])] = Msg(150)
    /\ dropped_count["A"] = 50


(***************************************************************************)
(* handle_client step by step (lines 1909-2006).  session[h] is the        *)
(* position of the coroutine of connection h: "none" (not connected),      *)
(* "state" (suspended in send_direct of the state snapshot), "history"     *)
(* (suspended in send_direct of the history), "loop" (waiting for a        *)
(* message), "finally" (the try block was left), "closing" (suspended in   *)
(* close(), awaiting the sender task) and "done".                          *)
(***************************************************************************)
\* lines 1905-1913: the handler is made, its sender task created and the
\* handler added to clients, all before the first await
session_connect(h, ip) ==
    /\ session[h] = "none"
    /\ ~admission_rejects(len_clients, FALSE)
    /\ clients' = clients \cup {h}
    /\ ws' = [ws EXCEPT ![h] = "open"]
    /\ sender' = [sender EXCEPT ![h] = "wait"]
    /\ client_ip' = [client_ip EXCEPT ![h] = ip]
    /\ session' = [session EXCEPT ![h] = "state"]
    /\ UNCHANGED <<queue, dropped_count, closed, inflight, sent, event_buffer, enq_count>>
    /\ UNCHANGED <<now, peer_names, name_change_timestamps, naming, accepted>>
    /\ UNCHANGED <<admRest, netVars>>

\* send_direct (lines 289-297) of the snapshot msg returns or raises
session_send(h, at, msg, next) ==
    /\ session[h] = at
    /\ IF ws[h] = "open"
       THEN /\ sent' = [sent EXCEPT ![h] = Append(sent[h], msg)]
            /\ session' = [session EXCEPT ![h] = next]
       ELSE /\ session' = [session EXCEPT ![h] = "finally"]
            /\ UNCHANGED sent
    /\ UNCHANGED <<clients, queue, dropped_count, closed, sender, inflight, ws,
                   event_buffer, enq_count>>
    /\ UNCHANGED <<admRest, nameVars, netVars>>

\* lines 1917-1930
session_send_state(h) == session_send(h, "state", StateMsg, "history")

\* lines 1934-1936
session_send_history(h) == session_send(h, "history", HistoryMsg, "loop")

\* line 1941: the iteration over the websocket ends when the connection closed
session_loop_closed(h) ==
    /\ session[h] = "loop"
    /\ ws[h] = "closed"
    /\ ~naming[h].busy
    /\ session' = [session EXCEPT ![h] = "finally"]
    /\ UNCHANGED <<fanVars, admRest, nameVars, netVars>>

\* ClientHandler.close up to its await (lines 301-316): _closed is set, the
\* poison pill queued and the cancellation of the sender task requested
close_begin(h) ==
    /\ closed' = [closed EXCEPT ![h] = TRUE]
    /\ queue' = [queue EXCEPT ![h] = close_queue(queue[h])]

\* Mutant: the finally block closes the handler and leaves it in clients.
session_finally_keeps(h) ==
    /\ session[h] = "finally"
    /\ close_begin(h)
    /\ session' = [session EXCEPT ![h] = "closing"]
    /\ UNCHANGED <<clients, dropped_count, sender, inflight, ws, sent, event_buffer,
                   enq_count>>
    /\ UNCHANGED <<admRest, nameVars, netVars>>

\* the finally block (lines 2001-2003) up to the await inside close()
session_finally(h) ==
    /\ session[h] = "finally"
    /\ clients' = clients \ {h}
    /\ close_begin(h)
    /\ session' = [session EXCEPT ![h] = "closing"]
    /\ UNCHANGED <<dropped_count, sender, inflight, ws, sent, event_buffer, enq_count>>
    /\ UNCHANGED <<admRest, nameVars, netVars>>

\* Mutant: the sender swallows the cancellation and goes on waiting.
sender_cancelled_swallowed(h) ==
    /\ session[h] = "closing"
    /\ closed[h]
    /\ sender[h] \in {"wait", "sending"}
    /\ sender' = [sender EXCEPT ![h] = "wait"]
    /\ inflight' = [inflight EXCEPT ![h] = NoMsg]
    /\ UNCHANGED <<clients, queue, dropped_count, closed, ws, sent, event_buffer, enq_count>>
    /\ UNCHANGED notFan

\* the cancellation requested by close() reaches the sender task at its
\* await (queue.get or ws.send): CancelledError is caught at lines 265-266
sender_cancelled(h) ==
    /\ session[h] = "closing"
    /\ closed[h]
    /\ sender[h] \in {"wait", "sending"}
    /\ sender' = [sender EXCEPT ![h] = "exited"]
    /\ inflight' = [inflight EXCEPT ![h] = NoMsg]
    /\ UNCHANGED <<clients, queue, dropped_count, closed, ws, sent, event_buffer, enq_count>>
    /\ UNCHANGED notFan

\* lines 317-320: the awaited sender task is done and close() returns
close_return(h) ==
    /\ session[h] = "closing"
    /\ sender[h] = "exited"
    /\ session' = [session EXCEPT ![h] = "done"]
    /\ UNCHANGED <<fanVars, admRest, nameVars, netVars>>

(***************************************************************************)
(* SpecClose: one session past its setup, either A (idle, its queue empty) *)
(* or B (a slow client inside a send with Backlog messages queued, as in   *)
(* SpecFan), while events are flushed, its socket closes and the session   *)
(* is reaped step by step.                                                 *)
(* The event loop runs every ready coroutine: a step of handle_client or   *)
(* of a sender task that stays enabled is eventually taken.                *)
(***************************************************************************)
SessionStep(h) ==
    \/ session_send_state(h)
    \/ session_send_history(h)
    \/ session_loop_closed(h)
    \/ session_finally(h)
    \/ close_return(h)

Scheduling ==
    \A h \in Handlers : /\ WF_vars(SessionStep(h))
                        /\ WF_vars(sender_cancelled(h))
                        /\ WF_vars(sender_failed(h))

InitClose ==
    \E live \in Handlers :
        /\ clients = {live}
        /\ queue = [h \in Handlers |->
                      IF h = "B" /\ h = live
                      THEN [i \in 1..Backlog |-> Batch(<<Event(i + 1)>>)] ELSE <<>>]
        /\ dropped_count = [h \in Handlers |-> 0]
        /\ closed = [h \in Handlers |-> FALSE]
        /\ sender = [h \in Handlers |->
                       IF h # live THEN "none" ELSE IF h = "B" THEN "sending" ELSE "wait"]
        /\ inflight = [h \in Handlers |->
                         IF h = "B" /\ h = live THEN Batch(<<Event(1)>>) ELSE NoMsg]
        /\ ws = [h \in Handlers |-> IF h = live THEN "open" ELSE "none"]
        /\ sent = [h \in Handlers |-> IF h = live THEN <<StateMsg, HistoryMsg>> ELSE <<>>]
        /\ event_buffer = <<>>
        /\ enq_count = Backlog + 1
        /\ AdmIdle /\ NetIdle /\ NameIdle

NextClose ==
    \/ buffer_event
    \/ flush_event_buffer
    \/ \E h \in Handlers : sender_get(h)
    \/ \E h \in Handlers : sender_sent(h)
    \/ \E h \in Handlers : sender_failed(h)
    \/ \E h \in Handlers : sender_cancelled(h)
    \/ \E h \in Handlers : socket_closed(h)
    \/ \E h \in Handlers : session_loop_closed(h)
    \/ \E h \in Handlers : session_finally(h)
    \/ \E h \in Handlers : close_return(h)

SpecClose == InitClose /\ [][NextClose]_vars /\ Scheduling

\* C31: sender shutdown. Whatever the queue holds and wherever the sender is
\* suspended when close() is called, the sender task eventually terminates and
\* close() returns; no queue ever holds more than CLIENT_QUEUE_MAX items; an
\* enqueue on a closed handler changes neither its queue nor its drop count;
\* and a sender whose socket fails during a send leaves that send only by
\* exiting, which it eventually does.
C31_SenderShutdown ==
    /\ [](\A h \in Handlers :
            /\ Len(queue[h]) <= CLIENT_QUEUE_MAX
            /\ closed[h] => /\ enqueue_queue(queue[h], closed[h], Msg(0)) = queue[h]
                            /\ enqueue_dropped(queue[h], closed[h], dropped_count[h])
                                 = dropped_count[h])
    /\ [][\A h \in Handlers :
            /\ closed[h] => queue'[h] = queue[h]
            /\ (sender[h] = "sending" /\ ws[h] = "closed" /\ sender'[h] # "sending")
                  => sender'[h] = "exited"]_vars
    /\ \A h \in Handlers :
          /\ (session[h] = "closing") ~> (sender[h] = "exited")
          /\ (session[h] = "closing") ~> (session[h] = "done")
          /\ (sender[h] = "sending" /\ ws[h] = "closed") ~> (sender[h] = "exited")

\* C31 witness: close() was called on the slow client while its queue was full
\* and its sender inside a send; the pill took the place of the oldest item,
\* the sender is gone and close() has returned.
C31_Witness ==
    /\ session["B"] = "done"
    /\ sender["B"] = "exited"
    /\ Len(queue["B"]) = CLIENT_QUEUE_MAX
    /\ queue["B"][CLIENT_QUEUE_MAX] = None
    /\ Len(sent["B"]) = 2

(***************************************************************************)
(* SpecSession: B is an admitted session inside its message loop, A        *)
(* connects and goes through its setup while the tailer and the flusher    *)
(* run, sockets close and sessions are reaped.  No name is requested.      *)
(***************************************************************************)
\* events the tailer produces in SpecSession
MaxSessionEvents == 1

InitSession ==
    /\ clients = {"B"}
    /\ queue = [h \in Handlers |-> <<>>]
    /\ dropped_count = [h \in Handlers |-> 0]
    /\ closed = [h \in Handlers |-> FALSE]
    /\ sender = [h \in Handlers |-> IF h = "B" THEN "wait" ELSE "none"]
    /\ inflight = [h \in Handlers |-> NoMsg]
    /\ ws = [h \in Handlers |-> IF h = "B" THEN "open" ELSE "none"]
    /\ sent = [h \in Handlers |-> IF h = "B" THEN <<StateMsg, HistoryMsg>> ELSE <<>>]
    /\ event_buffer = <<>>
    /\ enq_count = Backlog + 1 + MaxEvents - MaxSessionEvents
    /\ now = 0
    /\ client_ip = [h \in Handlers |-> IF h = "B" THEN OtherIP ELSE ""]
    /\ peer_names = <<>>
    /\ name_change_timestamps = <<>>
    /\ naming = [h \in Handlers |-> NotNaming]
    /\ accepted = <<>>
    /\ AdmIdle /\ NetIdle

NextSession ==
    \/ buffer_event
    \/ flush_event_buffer
    \/ \E h \in Handlers : session_connect(h, PeerIP)
    \/ \E h \in Handlers : session_send_state(h)
    \/ \E h \in Handlers : session_send_history(h)
    \/ \E h \in Handlers : session_loop_closed(h)
    \/ \E h \in Handlers : session_finally(h)
    \/ \E h \in Handlers : close_return(h)
    \/ \E h \in Handlers : sender_get(h)
    \/ \E h \in Handlers : sender_sent(h)
    \/ \E h \in Handlers : sender_failed(h)
    \/ \E h \in Handlers : sender_cancelled(h)
    \/ \E h \in Handlers : socket_closed(h)

SpecSession == InitSession /\ [][NextSession]_vars /\ Scheduling

\* C32: session reaping. A live session whose socket closed is eventually out
\* of the client set with its handler closed; from then on its queue receives
\* nothing; a session leaves the client set only in its own finally block,
\* reached because its own socket closed, and its leaving frees exactly one
\* slot of the admission count.
C32_SessionReaping ==
    /\ \A h \in Handlers :
          (h \in clients /\ ws[h] = "closed") ~> (h \notin clients /\ closed[h])
    /\ [][\A h \in Handlers :
            /\ (h \notin clients /\ closed[h]) => queue'[h] = queue[h]
            /\ (h \in clients /\ h \notin clients')
                  => /\ ws[h] = "closed"
                     /\ session[h] = "finally"
                     /\ clients' = clients \ {h}
                     /\ len_clients' = len_clients - 1]_vars

\* C32 witness: the socket of A closed during its setup and A was reaped; B
\* stays connected and the batch flushed afterwards went to B alone.
C32_Witness ==
    /\ session["A"] = "done"
    /\ Len(sent["A"]) < 2
    /\ clients = {"B"}
    /\ ws["B"] = "open"
    /\ queue["B"] # <<>>
    /\ queue["A"] = <<None>>

\* the messages that reach a socket through the session's queue
Queued == {"event_batch", "peers_removed", "peer_name_update"}

\* C35: connect-time message order. On every socket the first message written
\* is the state snapshot and the second the history snapshot, so that nothing
\* that went through the session's queue precedes the history.
C35_SetupOrder ==
    \A h \in Handlers :
        /\ Len(sent[h]) >= 1 => sent[h][1] = StateMsg
        /\ Len(sent[h]) >= 2 => sent[h][2] = HistoryMsg
        /\ \A i \in 1..Len(sent[h]) :
              sent[h][i].type \in Queued
                 => \E j \in 1..(i - 1) : sent[h][j] = HistoryMsg

(***************************************************************************)
(* SpecAged: the hub and its spokes of SpecSnapshot while the clock        *)
(* advances; the hub and two more peers report connections at the current  *)
(* time, so that the spokes grow stale while the reporting peers stay      *)
(* live, and sessions are sent snapshots.                                  *)
(***************************************************************************)
\* the clock of SpecAged advances SnapshotTicks times
SnapshotTicks == 2

\* the hub reports its connections with two peers that are not spokes, and
\* one of them its connection with the other
AgedRecords ==
    {ConnectReport(PeerIP, OtherIP), ConnectReport(PeerIP, ThirdIP),
     ConnectReport(OtherIP, ThirdIP)}

InitAged == InitSnapshot

NextAged ==
    \/ \E rec \in AgedRecords : process_record([rec EXCEPT !.timestamp = now])
    \/ take_snapshot
    \/ now < ClockStep * 60000 * SnapshotTicks /\ clock_advance

SpecAged == InitAged /\ [][NextAged]_vars

\* the anonymous ids of the peers listed by the snapshot snap
listed_ids(snap) == {p.id : p \in snap.peers}

\* C33: the snapshot of get_network_state. Every listed peer is a stored peer
\* last seen less than 30 minutes before now; every listed connection joins
\* two distinct listed peers; no anonymous id is in more than
\* MAX_CONN_PER_PEER listed connections; and taking the snapshot changes
\* neither the connection set nor any neighbor set.
C33_SnapshotOutput ==
    [][SnapshotTaken =>
         /\ \A p \in network_state'.peers :
               \E ip \in DOMAIN peers :
                  /\ peers[ip].id = p.id
                  /\ now - peers[ip].last_seen < 30 * 60 * 1000
         /\ \A pair \in BagToSet(network_state'.connections) :
               Cardinality(pair) = 2 /\ pair \subseteq listed_ids(network_state')
         /\ \A id \in listed_ids(network_state') :
               conn_count(network_state'.connections, id) <= 20
         /\ connections' = connections
         /\ DOMAIN peers' = DOMAIN peers
         /\ \A ip \in DOMAIN peers : peers'[ip].connections = peers[ip].connections]_vars

\* C33 witness: the spokes are stale and the hub is live; the snapshot lists
\* the hub without any spoke, and the stored edges to the spokes are still
\* there.
C33_Witness ==
    /\ network_state # None
    /\ now >= 30 * 60 * 1000
    /\ PeerIP \in DOMAIN peers
    /\ now - peers[PeerIP].last_seen < 30 * 60 * 1000
    /\ anonymize_ip(PeerIP) \in listed_ids(network_state)
    /\ anonymize_ip(SpokeIPs[1]) \notin listed_ids(network_state)
    /\ {PeerIP, SpokeIPs[1]} \in connections
    /\ BagToSet(network_state.connections) # {}

(***************************************************************************)
(* The lifecycle list of the snapshot (get_network_state, lines            *)
(* 1502-1509 and 1611-1623).                                               *)
(***************************************************************************)
\* Python's seq[:k]: a negative k counts from the end
slice_to(seq, k) ==
    IF k >= 0 THEN Prefix(seq, k) ELSE Prefix(seq, Max(0, Len(seq) + k))

\* Mutant: a negative number of remaining slots is taken as none.
other_slots_clamped(topology_count) == Max(0, 50 - topology_count)

\* the slice bound of line 1623
other_slots(topology_count) == 50 - topology_count

\* lines 1505-1509: the identities with a startup, no shutdown and a public
\* address
active_lifecycle(w) ==
    {pid \in DOMAIN w.peer_lifecycle :
        /\ w.peer_lifecycle[pid].shutdown_time = NoTime
        /\ pid \in DOMAIN w.attrs_peer_id_to_ip
        /\ is_public_ip(w.attrs_peer_id_to_ip[pid])}

\* lines 1512-1522: the identities of the live topology peers
active_peer_ids(w, now_ns) ==
    {w.peers[ip].peer_id : ip \in active_peer_ips(w, now_ns)} \ {""}

\* lines 1613-1623: the identities of the lifecycle records of the snapshot,
\* in the order of the list; lifecycle_order is the order in which the
\* dictionary peer_lifecycle is iterated
lifecycle_peers(w, now_ns, lifecycle_order) ==
    LET topology_peer_ids == active_peer_ids(w, now_ns)
        topology_lifecycle == SetToSeq(topology_peer_ids \cap active_lifecycle(w))
        other_lifecycle ==
            slice_to(SelectSeq(lifecycle_order,
                               LAMBDA pid : pid \in active_lifecycle(w)
                                            /\ pid \notin topology_peer_ids),
                     other_slots(Len(topology_lifecycle)))
    IN  topology_lifecycle \o other_lifecycle

Digits == <<"0", "1", "2", "3", "4", "5", "6", "7", "8", "9">>

\* the i-th address and the i-th identity of SpecLifecycle, i < 100
NumberedIP(i) == "30.0.0." \o Digits[(i \div 10) + 1] \o Digits[(i % 10) + 1]

NumberedId(i) == "id" \o Digits[(i \div 10) + 1] \o Digits[(i % 10) + 1]

\* the indexes after n peers sent peer_startup and were seen at their own
\* public address at time 0, and m more identities sent peer_startup from
\* the address of the first peer without being seen in the topology
LifecycleWorld(n, m) ==
    LET ips == {NumberedIP(i) : i \in 1..n}
    IN  [EmptyWorld EXCEPT
           !.peers = [ip \in ips |->
                        LET i == CHOOSE k \in 1..n : NumberedIP(k) = ip
                        IN  [id |-> anonymize_ip(ip), ip_hash |-> ip_hash(ip),
                             location |-> LocOf(ip), last_seen |-> 0,
                             connections |-> {}, peer_id |-> NumberedId(i)]],
           !.ip_to_peer_id = [ip \in ips |->
                                NumberedId(CHOOSE k \in 1..n : NumberedIP(k) = ip)],
           !.peer_id_to_ip = [id \in {NumberedId(i) : i \in 1..n} |->
                                NumberedIP(CHOOSE k \in 1..n : NumberedId(k) = id)],
           !.attrs_peer_id_to_ip =
               [id \in {NumberedId(i) : i \in 1..(n + m)} |->
                  LET i == CHOOSE k \in 1..(n + m) : NumberedId(k) = id
                  IN  IF i <= n THEN NumberedIP(i) ELSE NumberedIP(1)],
           !.peer_presence = [ip \in ips |->
                                LET i == CHOOSE k \in 1..n : NumberedIP(k) = ip
                                IN  [id |-> anonymize_ip(ip), ip_hash |-> ip_hash(ip),
                                     location |-> LocOf(ip), first_seen |-> 0,
                                     peer_id |-> NumberedId(i)]],
           !.peer_lifecycle = [id \in {NumberedId(i) : i \in 1..(n + m)} |->
                                 [startup_time |-> 0, shutdown_time |-> NoTime]]]

\* a session is sent the snapshot: its lifecycle list
take_lifecycle_snapshot ==
    /\ network_state' =
          [peers |-> get_network_state(World, now, <<>>).peers,
           connections |-> get_network_state(World, now, <<>>).connections,
           peer_lifecycle |-> lifecycle_peers(World, now, SetToSeq(DOMAIN peer_lifecycle))]
    /\ UNCHANGED <<peers, connections, ip_to_peer_id, peer_id_to_ip, attrs_peer_id_to_ip,
                   peer_presence, subscriptions, seeding_state, contract_states,
                   contract_propagation, peer_lifecycle, pending_ops, associated, records,
                   last_event, offered, event_history, transactions, transaction_order,
                   latencies, percentiles, op_stats, tailVars>>
    /\ UNCHANGED <<fanVars, admVars, nameVars>>

(***************************************************************************)
(* SpecLifecycle: between 50 - LifecycleRoom and 50 + LifecycleRoom live   *)
(* topology peers with a lifecycle record and up to MaxOthers more active  *)
(* identities; snapshots are taken while the clock advances and the        *)
(* topology peers grow stale.                                              *)
(***************************************************************************)
LifecycleRoom == 2

MaxOthers == 3

InitLifecycle ==
    \E n \in (50 - LifecycleRoom)..(50 + LifecycleRoom), m \in 0..MaxOthers :
        /\ FanIdle /\ AdmIdle /\ NameIdle
        /\ NetIs(LifecycleWorld(n, m))
        /\ associated = [ip \in PublicIPs \cup {PrivateIP} |-> {}]
        /\ records = 0
        /\ last_event = None
        /\ offered = <<>>
        /\ LogsEmpty

NextLifecycle ==
    \/ take_lifecycle_snapshot
    \/ now < ClockStep * 60000 * SnapshotTicks /\ clock_advance

SpecLifecycle == InitLifecycle /\ [][NextLifecycle]_vars

\* the identities backing a live topology peer that have an active record
TopologyBacked == active_peer_ids(World, now) \cap active_lifecycle(World)

\* C34: the lifecycle list of the snapshot. The records of the identities
\* backing live topology peers come first, and the number of other active
\* records after them is at most max(0, 50 - number of topology-backed
\* records).
C34_LifecycleList ==
    [][SnapshotTaken =>
         LET list == network_state'.peer_lifecycle
             n == Cardinality(TopologyBacked)
         IN  /\ Len(list) >= n
             /\ {list[i] : i \in 1..n} = TopologyBacked
             /\ \A i \in (n + 1)..Len(list) : list[i] \notin TopologyBacked
             /\ Len(list) - n <= Max(0, 50 - n)]_vars

(***************************************************************************)
(* The real-time filter of the tailer (lines 193-214 and 1836-1838) and    *)
(* the event type an event is given (line 1319).                           *)
(***************************************************************************)
HISTORY_EVENT_TYPES ==
    {"put_request", "put_success", "get_success", "get_not_found", "update_request",
     "update_success", "update_broadcast_received", "update_broadcast_applied",
     "update_broadcast_emitted", "broadcast_emitted", "update_broadcast_delivery_summary",
     "peer_startup", "peer_shutdown", "seeding_started", "seeding_stopped"}

REALTIME_EVENT_TYPES ==
    HISTORY_EVENT_TYPES \cup
        {"get_request", "connect_connected", "disconnect", "subscribe_success", "subscribed"}

\* line 1319: a connect record is shown under the type of its body
display_event_type(event_type, body_type) ==
    IF event_type = "connect" /\ body_type # "" THEN body_type ELSE event_type

\* the event of the record rec whose body has the type body_type
displayed_event(w, rec, body_type) ==
    IF process_record_event(w, rec) = None THEN None
    ELSE [process_record_event(w, rec) EXCEPT
             !.event_type = display_event_type(rec.event_type, body_type)]

\* lines 1836-1838: process_record, then buffer_event when the event is of a
\* real-time type
tail_record(rec, body_type) ==
    LET event == displayed_event(World, rec, body_type)
    IN  /\ records < MaxRecords
        /\ records' = records + 1
        /\ Install(RecordEffect(World, rec))
        /\ last_event' = event
        /\ associated' = [ip \in DOMAIN associated |->
                             associated[ip] \cup BoundIds(RecordEffect(World, rec), ip)]
        /\ offered' = offered_after(World, RecordEffect(World, rec), rec)
        /\ IF event # None /\ event.event_type \in REALTIME_EVENT_TYPES
           THEN /\ event_buffer' = Append(event_buffer, event)
                /\ enq_count' = enq_count + 1
           ELSE UNCHANGED <<event_buffer, enq_count>>
        /\ UNCHANGED <<clients, queue, dropped_count, closed, sender, inflight, ws, sent>>
        /\ UNCHANGED <<event_history, transactions, transaction_order, latencies,
                       percentiles, op_stats, tailVars, network_state>>
        /\ UNCHANGED <<admVars, nameVars>>

(***************************************************************************)
(* SpecStream: one session is connected; the tailer reads connect records  *)
(* of the three routing kinds and disconnect records between two public    *)
(* peers, and the flusher and the session's sender run.                    *)
(***************************************************************************)
\* the types a record body carries: none, or those of a connect operation
BodyTypes == {"", "start_connection", "connected", "finished"}

StreamRecords ==
    {[Record(kind, "P", 0) EXCEPT
         !.this_peer = PeerStr("P", PeerIP, LocOf(PeerIP)),
         !.connected_peer = PeerStr("Q", OtherIP, LocOf(OtherIP))] :
     kind \in {"connect", "connected", "connect_connected"}}
    \cup {[Record("disconnect", "P", 0) EXCEPT
              !.this_peer = PeerStr("P", PeerIP, LocOf(PeerIP)),
              !.from_peer_addr = OtherIP]}

InitStream == InitNet

NextStream ==
    \/ \E rec \in StreamRecords, body_type \in BodyTypes : tail_record(rec, body_type)
    \/ flush_event_buffer
    \/ \E h \in Handlers : sender_get(h)
    \/ \E h \in Handlers : sender_sent(h)

SpecStream == InitStream /\ [][NextStream]_vars

\* C36: topology changes are streamed. Every record handled by the tailer that
\* inserts an edge into the connection set or removes one puts an event with
\* the connection or the disconnection side-band in the batch buffer.
C36_TopologyStreamed ==
    [][connections' # connections =>
         /\ event_buffer' # event_buffer
         /\ Len(event_buffer') = Len(event_buffer) + 1
         /\ LET event == event_buffer'[Len(event_buffer')]
            IN  IF connections \subseteq connections'
                THEN event.connection # Absent
                ELSE event.disconnection # Absent]_vars

\* the part of C36 that the code keeps: a record of kind connect_connected
\* that inserts an edge, and a disconnect that removes one, are buffered with
\* their side-band
Streamed_Completions ==
    [][(connections' # connections
        /\ last_event'.event_type \in {"connect_connected", "disconnect"}) =>
         /\ Len(event_buffer') = Len(event_buffer) + 1
         /\ LET event == event_buffer'[Len(event_buffer')]
            IN  IF connections \subseteq connections'
                THEN event.connection # Absent
                ELSE event.disconnection # Absent]_vars

\* C37: ip_to_peer_id and peer_id_to_ip are inverse mappings after every
\* process_record call and every sweep: an address bound to an identity is
\* the address that identity is bound to, and conversely.
C37_InverseMappings ==
    /\ \A ip \in DOMAIN ip_to_peer_id :
          /\ ip_to_peer_id[ip] \in DOMAIN peer_id_to_ip
          /\ peer_id_to_ip[ip_to_peer_id[ip]] = ip
    /\ \A pid \in DOMAIN peer_id_to_ip :
          /\ peer_id_to_ip[pid] \in DOMAIN ip_to_peer_id
          /\ ip_to_peer_id[peer_id_to_ip[pid]] = pid

\* C38: a peer's last-seen never decreases. Whatever the order of the
\* timestamps of the records, no record lowers the last_seen of a peer that
\* is in the index (so that last_seen is the maximum timestamp among the
\* records that referred to the peer).
C38_LastSeenMonotone ==
    [][\A ip \in DOMAIN peers \cap DOMAIN peers' :
          peers'[ip].last_seen >= peers[ip].last_seen]_vars

\* the stored edges a step took out of the connection set
EdgesRemoved == connections \ connections'

\* a sweep has just removed edges: it alone removes more than the one edge a
\* disconnect record names, or edges together with peers
SweepRemoved == EdgesRemoved # {} /\ DOMAIN peers' # DOMAIN peers

\* C39: every element of the connection set is an unordered pair of two
\* distinct peer addresses, and the edge {a, b} is in the connection set if and
\* only if b is in the stored neighbor set of a: no record creates a
\* one-element edge or makes a peer its own neighbor, and every edge a sweep
\* removes is in the removed-connections list sent to the sessions.
C39_EdgesArePairs ==
    /\ [](/\ \A conn \in connections : Cardinality(conn) = 2
          /\ \A a \in DOMAIN peers : a \notin peers[a].connections
          /\ \A conn \in connections : \A a \in conn :
                a \in DOMAIN peers /\ (conn \ {a}) \subseteq peers[a].connections
          /\ \A a \in DOMAIN peers : \A b \in peers[a].connections :
                {a, b} \in connections)
    /\ [][SweepRemoved =>
            \A h \in clients :
               /\ queue'[h] # <<>>
               /\ queue'[h][Len(queue'[h])].type = "peers_removed"
               /\ \A conn \in EdgesRemoved :
                     {anonymize_ip(ip) : ip \in conn}
                        \in queue'[h][Len(queue'[h])].connections]_vars

(***************************************************************************)
(* Warm start (load_initial_state, lines 2009-2043, called by main at line *)
(* 2062 before the tailer is started at line 2076).  The file at the path  *)
(* is read from its first line to its end without any await; a record that *)
(* raises ends its line (the bare except of line 2041).                    *)
(***************************************************************************)
\* the records of a line that reach process_record during the warm start
reach_initial(log_records) ==
    LET stops == {i \in 1..Len(log_records) : log_records[i] = "raises"}
    IN  IF stops = {} THEN log_records
        ELSE SubSeq(log_records, 1, CHOOSE i \in stops : \A j \in stops : i <= j)

RECURSIVE replayed(_, _, _)
\* the hand-offs of the lines from line number n on of the file inode
replayed(inode, file, n) ==
    IF n > Len(file) THEN <<>>
    ELSE LET reached == IF file[n].records = Garbage THEN <<>>
                        ELSE reach_initial(file[n].records)
         IN  [i \in 1..Len(reached) |->
                 [inode |-> inode, line |-> n, record |-> i, kind |-> reached[i]]]
             \o replayed(inode, file, n + 1)

load_initial_state ==
    /\ tailer.pc = "load"
    /\ tailer' = [tailer EXCEPT !.pc = "exists"]
    /\ handed' = IF log_files.path = NoFile THEN handed
                 ELSE handed \o replayed(log_files.path, log_files.files[log_files.path], 1)
    /\ UNCHANGED <<log_files, fanVars, tailFrame>>

(***************************************************************************)
(* SpecIngest: the server starts while the writer of the log appends       *)
(* lines, removes the file and creates new ones: the warm start, then the  *)
(* tailer.                                                                 *)
(***************************************************************************)
InitIngest ==
    /\ FanIdle /\ AdmIdle /\ NameIdle /\ IndexesEmpty
    /\ event_history = <<>>
    /\ transactions = <<>>
    /\ transaction_order = <<>>
    /\ latencies = <<>>
    /\ percentiles = None
    /\ op_stats = NoOpStats
    /\ network_state = None
    /\ log_files = [path |-> 1, files |-> << <<>> >>]
    /\ tailer = [pc |-> "load", current_inode |-> NoFile, handle |-> NoFile, offset |-> 0]
    /\ handed = <<>>

NextIngest ==
    \/ load_initial_state
    \/ tail_log_exists
    \/ tail_log_stat
    \/ tail_log_open
    \/ tail_log_check
    \/ tail_log_read
    \/ \E line \in LogLines : log_append(line)
    \/ log_remove
    \/ log_create

SpecIngest ==
    InitIngest /\ [][NextIngest]_vars /\ WF_vars(load_initial_state \/ tail_log)

\* the tailer has read the file at the path to its end
CaughtUp ==
    /\ Following
    /\ tailer.handle = log_files.path
    /\ tailer.offset = Len(log_files.files[tailer.handle])

\* C40: no telemetry line is lost or processed twice. No record of a line is
\* handed to process_record twice, and whenever the tailer has read the file
\* at the path to its end, every line that parses, of every file written so
\* far, has been handed to process_record by the warm start or by the tailer.
C40_ExactlyOnce ==
    /\ \A i \in 1..Len(handed), j \in 1..Len(handed) :
          (i # j /\ handed[i].inode = handed[j].inode /\ handed[i].line = handed[j].line)
             => handed[i].record # handed[j].record
    /\ CaughtUp =>
          \A inode \in 1..Len(log_files.files) :
             \A n \in 1..Len(log_files.files[inode]) :
                log_files.files[inode][n].records # Garbage
                   => HandedOf(handed, inode, n) # <<>>

====
